---- MODULE Spec2Model ----
(***************************************************************************)
(* A model of the oil price scraper: the orchestrator (package scraper),   *)
(* the storage gateway (package database, PostgreSQL), and the daily       *)
(* scheduler (package scheduler).                                          *)
(*                                                                         *)
(* Time is counted in half hours.  An even value of the clock is an exact  *)
(* hour h:00, an odd value stands for the open interval between two exact  *)
(* hours, so that the strict comparison time.After is modelled exactly.    *)
(* Nullable values (Go nil pointers, SQL NULL) are None == <<>> or         *)
(* Some(v) == <<v>>.                                                       *)
(***************************************************************************)
EXTENDS Integers, Sequences, FiniteSets, Bags, TLC

VARIABLES
    providers,        \* Scraper.providers: name -> provider
    providerMetrics,  \* Scraper.providerMetrics: name -> *Metrics (a heap address)
    heap,             \* the Metrics objects allocated so far: address -> Metrics
    storeRawResponse, \* Scraper.storeRawResponse
    table,            \* the oil_prices table: a bag of rows
    th,               \* per thread of control: its position and its locals
    now,              \* the wall clock, in half hours
    zone,             \* time.Local: its UTC offsets (hours) before and from one change
    scrapeHour,       \* Scheduler.scrapeHour
    nextScrapeAt,     \* Scheduler.nextScrapeAt
    lastScrapeAt,     \* Scheduler.lastScrapeAt
    running,          \* Scheduler.running
    timer,            \* the instant the scheduler's timer is set to fire at
    cancelled         \* whether the context handed to Scheduler.Start is done

vars == <<providers, providerMetrics, heap, storeRawResponse, table, th, now,
          zone, scrapeHour, nextScrapeAt, lastScrapeAt, running, timer,
          cancelled>>

schedVars == <<scrapeHour, nextScrapeAt, lastScrapeAt, running, timer, cancelled>>

(***************************************************************************)
(* Bounds of the model.                                                    *)
(***************************************************************************)
MaxBatch == 2
MaxScrapes == 2
MaxRegs == 3
MaxRaceCalls == 1
MaxFires == 2
MaxDays == 3
MaxUpserts == 2
MaxReads == 1

(***************************************************************************)
(* Nullable values.                                                        *)
(***************************************************************************)
None == <<>>
Some(v) == <<v>>
NULL == <<>>
Nil == "nil"

(***************************************************************************)
(* Time: 24 hours of two half hours each.                                  *)
(***************************************************************************)
HoursPerDay == 24
TicksPerHour == 1 + 1
Day24h == HoursPerDay * TicksPerHour
ZeroTime == 0 - 1000000
NoTime == [abs |-> ZeroTime, loc |-> "UTC"]

\* A time.Time is an absolute instant and a location, "UTC" or "Local".
\* The offset of time.Local in effect at an instant.
OffsetAt(abs) == IF abs < zone.at THEN zone.before ELSE zone.after

OffsetOf(t) == IF t.loc = "UTC" THEN 0 ELSE OffsetAt(t.abs)

\* t.Truncate(24 * time.Hour): rounds the absolute time down to a multiple of
\* 24 hours, which is midnight UTC; the location of t is kept.
Truncate24h(t) == [t EXCEPT !.abs = t.abs - (t.abs % Day24h)]

\* t.Format("2006-01-02"), and t.Year(), t.Month(), t.Day(): the calendar day of
\* t in t's own location.
FormatDate(t) == (t.abs + OffsetOf(t) * TicksPerHour) \div Day24h

\* time.Now(): the clock, in the local zone.
TimeNow == [abs |-> now, loc |-> "Local"]

\* time.Date(year, month, day, hour, 0, 0, 0, time.Local): the wall clock reading
\* is first taken as if it were UTC and the offset in effect at that instant is
\* subtracted; when the result falls on the other side of the zone's change,
\* the offset in effect at the result is subtracted instead.
DateLocal(day, hour) ==
    LET unix == day * Day24h + hour * TicksPerHour
        offset == OffsetAt(unix)
        utc == unix - offset * TicksPerHour
    IN  IF offset # 0 /\ (utc < zone.at) # (unix < zone.at)
        THEN [abs |-> unix - OffsetAt(utc) * TicksPerHour, loc |-> "Local"]
        ELSE [abs |-> utc, loc |-> "Local"]

\* t.After(u)
After(t, u) == t.abs > u.abs

\* Zones: UTC, a fixed offset, and the two changes of a zone with summer time
\* (03:00 -> 02:00 and 02:00 -> 03:00 local, both at 01:00 UTC of day ChangeDay).
ChangeDay == 1 + 1
ChangeAt == ChangeDay * Day24h + TicksPerHour
UTCZone == [before |-> 0, after |-> 0, at |-> 0]
FixedZone == [before |-> 1, after |-> 1, at |-> 0]
FallBackZone == [before |-> 2, after |-> 1, at |-> ChangeAt]
SpringForwardZone == [before |-> 1, after |-> 2, at |-> ChangeAt]
Zones == {UTCZone, FixedZone, FallBackZone, SpringForwardZone}

(***************************************************************************)
(* models.PriceResult and the provider adapters.                           *)
(***************************************************************************)
PriceScopeLocal == "local"
PriceScopeNational == "national"

\* A response body: its length in bytes and its text.
EmptyPayload == [len |-> 0, body |-> ""]
JsonBody == [len |-> 420, body |-> "json"]

Prices == {9781, 9902}
FetchErrors == {"executing request: timeout", "unexpected status code 500"}

\* A provider: what the orchestrator can ask it (Name, PriceScope,
\* SupportsBackfill), and what its fetches can return: the product types, the
\* days (relative to today), the prices (current and historical) and the
\* response bodies it stamps on observations, the errors its fetches fail
\* with, and whether its dates carry the UTC or the local location.
HeizOel24 ==
    [name |-> "heizoel24", scope |-> PriceScopeNational, backfill |-> TRUE, zipCode |-> "",
     productTypes |-> {"standard"}, days |-> {0 - 1, 0}, utc |-> TRUE,
     quotes |-> Prices, history |-> Prices, bodies |-> {JsonBody}, errors |-> FetchErrors]
Hoyer(zip) ==
    [name |-> "hoyer", scope |-> PriceScopeLocal, backfill |-> FALSE, zipCode |-> zip,
     productTypes |-> {"standard", "eco"}, days |-> {0}, utc |-> FALSE,
     quotes |-> Prices, history |-> {}, bodies |-> {JsonBody}, errors |-> FetchErrors]
\* The stub of the end-to-end scenario: one national series, dated today.
Stub ==
    [name |-> "stub", scope |-> PriceScopeNational, backfill |-> TRUE, zipCode |-> "",
     productTypes |-> {"standard"}, days |-> {0}, utc |-> TRUE,
     quotes |-> Prices, history |-> Prices, bodies |-> {EmptyPayload, JsonBody},
     errors |-> FetchErrors]
NoProvider ==
    [name |-> "", scope |-> "", backfill |-> FALSE, zipCode |-> "",
     productTypes |-> {}, days |-> {}, utc |-> TRUE, quotes |-> {}, history |-> {},
     bodies |-> {}, errors |-> {}]

\* The provider p on days when upstream quotes the standard product for today
\* only, and its historical series carries one price.
Narrow(p) ==
    [p EXCEPT !.productTypes = {"standard"}, !.days = {0}, !.bodies = {JsonBody},
              !.history = IF p.backfill THEN {CHOOSE v \in Prices : TRUE} ELSE {}]

\* The provider p while upstream quotes one price and fails in one way.
Steady(p) == [p EXCEPT !.quotes = {CHOOSE v \in Prices : TRUE},
                       !.errors = {CHOOSE e \in FetchErrors : TRUE}]
StorageError == "storage error"
CtxCanceled == "context canceled"

\* The dates a provider stamps on what it fetches at `at`.
ObsDates(p, at) ==
    {[abs |-> Truncate24h(at).abs + d * Day24h, loc |-> IF p.utc THEN "UTC" ELSE at.loc] : d \in p.days}

PriceResult(p, pt, d, v, raw, at) ==
    [Date |-> d, PricePer100L |-> v, Currency |-> "EUR", Provider |-> p.name,
     ProductType |-> pt, Scope |-> p.scope, ZipCode |-> p.zipCode,
     RawResponse |-> raw, FetchedAt |-> at.abs]

ObsOf(p, raw, at) ==
    {PriceResult(p, pt, d, v, raw, at) : pt \in p.productTypes, d \in ObsDates(p, at), v \in p.quotes}

\* Every batch of at most MaxBatch observations; one response body per fetch.
Batches(p, at) ==
    UNION {UNION {[1..n -> ObsOf(p, raw, at)] : n \in 0..MaxBatch} : raw \in p.bodies}

\* What Provider.FetchCurrentPrices can return: an error, or a batch.
FetchCurrentPrices(p, at) ==
    {[err |-> e, prices |-> <<>>] : e \in p.errors}
    \cup {[err |-> Nil, prices |-> b] : b \in Batches(p, at)}

\* The days from..to, as the UTC dates the upstream series carries.
RangeDates(from, to) ==
    {[abs |-> d * Day24h, loc |-> "UTC"] : d \in FormatDate(from)..FormatDate(to)}

\* What Provider.FetchHistoricalPrices(ctx, from, to) can return: an adapter
\* without historical data always fails; the others fail or return a batch of
\* observations dated within the range.
FetchHistoricalPrices(p, from, to, at) ==
    IF ~p.backfill
    THEN {[err |-> p.name \o " does not support historical data", prices |-> <<>>]}
    ELSE {[err |-> e, prices |-> <<>>] : e \in p.errors}
         \cup {[err |-> Nil, prices |-> b] :
                 b \in UNION {UNION {[1..n -> {PriceResult(p, pt, d, v, raw, at) :
                                                 pt \in p.productTypes,
                                                 d \in RangeDates(from, to),
                                                 v \in p.history}] : n \in 0..MaxBatch}
                              : raw \in p.bodies}}

(***************************************************************************)
(* The storage gateway: table oil_prices and its unique constraint.        *)
(***************************************************************************)
\* Go's "" becomes SQL NULL (InsertPrice and ExistsForDate both do this).
ZipToSQL(zipCode) == IF zipCode # "" THEN Some(zipCode) ELSE NULL

\* SQL `a = b`: not true when either side is NULL.
SqlEq(a, b) == a # NULL /\ b # NULL /\ a = b

Rows(tbl) == BagToSet(tbl)
RowCount(tbl) == BagCardinality(tbl)

\* A variant with the default treatment of NULL in a unique constraint: two
\* NULL zip codes are distinct.
Conflicts_NullsDistinct(r1, r2) ==
    /\ r1.provider = r2.provider
    /\ r1.product_type = r2.product_type
    /\ r1.price_date = r2.price_date
    /\ SqlEq(r1.zip_code, r2.zip_code)

\* CONSTRAINT unique_provider_product_date UNIQUE NULLS NOT DISTINCT
\* (provider, product_type, price_date, zip_code): when two rows conflict.
Conflicts(r1, r2) ==
    /\ r1.provider = r2.provider
    /\ r1.product_type = r2.product_type
    /\ r1.price_date = r2.price_date
    /\ (SqlEq(r1.zip_code, r2.zip_code) \/ (r1.zip_code = NULL /\ r2.zip_code = NULL))

\* A variant that binds the statement's parameters in another order.
NewRow_Misbound(price, storeRaw, at) ==
    [provider |-> price.Provider, product_type |-> price.ProductType,
     price_date |-> FormatDate(price.Date), price_per_100l |-> price.FetchedAt,
     currency |-> price.Currency, scope |-> price.Scope,
     zip_code |-> ZipToSQL(price.ZipCode),
     raw_response |-> IF storeRaw THEN Some(price.RawResponse) ELSE NULL,
     fetched_at |-> price.PricePer100L, created_at |-> at]

\* The row InsertPrice sends.
NewRow(price, storeRaw, at) ==
    [provider |-> price.Provider, product_type |-> price.ProductType,
     price_date |-> FormatDate(price.Date), price_per_100l |-> price.PricePer100L,
     currency |-> price.Currency, scope |-> price.Scope,
     zip_code |-> ZipToSQL(price.ZipCode),
     raw_response |-> IF storeRaw THEN Some(price.RawResponse) ELSE NULL,
     fetched_at |-> price.FetchedAt, created_at |-> at]

\* A variant that replaces the whole row, its creation time included.
UpdatedRow_Recreated(old, new) == new

\* ON CONFLICT ... DO UPDATE SET price_per_100l, raw_response, fetched_at.
UpdatedRow(old, new) ==
    [old EXCEPT !.price_per_100l = new.price_per_100l,
                !.raw_response = new.raw_response,
                !.fetched_at = new.fetched_at]

\* A variant with ON CONFLICT DO NOTHING.
InsertPrice_DoNothing(tbl, price, storeRaw, at) ==
    LET new == NewRow(price, storeRaw, at)
        hit == {r \in Rows(tbl) : Conflicts(r, new)}
    IN  IF hit = {} THEN tbl (+) SetToBag({new}) ELSE tbl

\* DB.InsertPrice: INSERT ... ON CONFLICT DO UPDATE.
InsertPrice(tbl, price, storeRaw, at) ==
    LET new == NewRow(price, storeRaw, at)
        hit == {r \in Rows(tbl) : Conflicts(r, new)}
    IN  IF hit = {}
        THEN tbl (+) SetToBag({new})
        ELSE LET old == CHOOSE r \in hit : TRUE
             IN  (tbl (-) SetToBag({old})) (+) SetToBag({UpdatedRow(old, new)})

\* A variant whose WHERE clause compares the zip code with = alone.
ExistsForDate_EqOnly(tbl, provider, productType, date, zipCode) ==
    LET z == ZipToSQL(zipCode)
    IN  \E r \in Rows(tbl) :
            /\ r.provider = provider
            /\ r.product_type = productType
            /\ r.price_date = FormatDate(date)
            /\ SqlEq(r.zip_code, z)

\* DB.ExistsForDate: SELECT COUNT(*) ... WHERE provider = $1 AND product_type = $2
\* AND price_date = $3 AND (zip_code = $4 OR (zip_code IS NULL AND $4 IS NULL)) > 0.
ExistsForDate(tbl, provider, productType, date, zipCode) ==
    LET z == ZipToSQL(zipCode)
    IN  \E r \in Rows(tbl) :
            /\ r.provider = provider
            /\ r.product_type = productType
            /\ r.price_date = FormatDate(date)
            /\ (SqlEq(r.zip_code, z) \/ (r.zip_code = NULL /\ z = NULL))

(***************************************************************************)
(* scraper.Metrics.                                                        *)
(***************************************************************************)
PreviewLimit == 10000

\* &Metrics{}: the zero value.
NewMetrics ==
    [TotalRequests |-> 0, TotalErrors |-> 0, LastScrapeAt |-> None,
     LastScrapeSuccess |-> FALSE, LastResponseTime |-> 0, LastPrice |-> None,
     LastError |-> None, LastRawResponse |-> EmptyPayload]

\* A variant that keeps the payload whole.
TruncateRaw_Whole(raw) == raw

\* rawResp[:10000] + "..." when the payload is longer than 10000 bytes.
TruncateRaw(raw) ==
    IF raw.len > PreviewLimit
    THEN [len |-> PreviewLimit + 3, body |-> raw.body \o "[:10000]..."]
    ELSE raw

\* A variant that forgets to count the error.
MetricsOnError_Uncounted(m, err, at, duration) ==
    [m EXCEPT !.LastScrapeAt = Some(at), !.LastResponseTime = duration,
              !.LastScrapeSuccess = FALSE, !.LastError = Some(err)]

\* The locked update after a failed fetch.
MetricsOnError(m, err, at, duration) ==
    [m EXCEPT !.LastScrapeAt = Some(at), !.LastResponseTime = duration,
              !.TotalErrors = @ + 1, !.LastScrapeSuccess = FALSE,
              !.LastError = Some(err)]

\* A variant that captures the last observation of the batch.
MetricsOnSuccess_Last(m, prices, at, duration) ==
    LET base == [m EXCEPT !.LastScrapeAt = Some(at), !.LastResponseTime = duration,
                          !.LastScrapeSuccess = TRUE, !.LastError = None]
    IN  IF Len(prices) > 0
        THEN LET p == [base EXCEPT !.LastPrice = Some(prices[Len(prices)].PricePer100L)]
             IN  IF prices[Len(prices)].RawResponse.len > 0
                 THEN [p EXCEPT !.LastRawResponse = TruncateRaw(prices[Len(prices)].RawResponse)]
                 ELSE p
        ELSE base

\* The locked update after a successful fetch.
MetricsOnSuccess(m, prices, at, duration) ==
    LET base == [m EXCEPT !.LastScrapeAt = Some(at), !.LastResponseTime = duration,
                          !.LastScrapeSuccess = TRUE, !.LastError = None]
    IN  IF Len(prices) > 0
        THEN LET p == [base EXCEPT !.LastPrice = Some(prices[1].PricePer100L)]
             IN  IF prices[1].RawResponse.len > 0
                 THEN [p EXCEPT !.LastRawResponse = TruncateRaw(prices[1].RawResponse)]
                 ELSE p
        ELSE base

(***************************************************************************)
(* Threads of control.  "t1" and "t2" make ad hoc calls into the           *)
(* orchestrator; "sched" runs Scheduler.Start.                             *)
(***************************************************************************)
Callers == {"t1", "t2"}
Threads == Callers \cup {"sched"}
CallNames == {"heizoel24", "hoyer", "stub", "unknown"}

IdleThread(n) ==
    [pc |-> "idle", op |-> "", name |-> "", provider |-> NoProvider, metrics |-> 0,
     start |-> 0, prices |-> <<>>, err |-> Nil, i |-> 0, queue |-> <<>>,
     ret |-> "none", log |-> <<>>, seen |-> <<>>, pre |-> <<>>, calls |-> n,
     from |-> NoTime, to |-> NoTime, inserted |-> 0, skipped |-> 0,
     hst |-> <<>>, fired |-> None, fires |-> 0, reads |-> 0, snap |-> None]

\* The locals of one ScrapeProvider or Backfill invocation, as it starts.
Enter(r, pc, n) ==
    [r EXCEPT !.pc = pc, !.name = n, !.provider = NoProvider, !.metrics = 0, !.start = 0,
              !.prices = <<>>, !.err = Nil, !.i = 0, !.log = <<>>,
              !.inserted = 0, !.skipped = 0]

\* All orders in which a range over the map s.providers can visit its keys.
Orders(S) == {q \in [1..Cardinality(S) -> S] : \A a, b \in 1..Cardinality(S) : a # b => q[a] # q[b]}

Registered == DOMAIN providers

\* The context of thread t is done: the scheduler's thread runs under the
\* cancellable context of the run command, the commands' calls under
\* context.Background().
CtxDone(t) == t = "sched" /\ cancelled

\* A variant in which a provider's error ends the pass.
ReturnFromScrapeProvider_Abort(r, v) ==
    IF r.op = "ScrapeProvider" \/ v # Nil
    THEN [r EXCEPT !.pc = "idle", !.ret = v]
    ELSE IF r.op = "runIfNeeded"
         THEN [r EXCEPT !.pc = "rin_loop"]
         ELSE [r EXCEPT !.pc = "sa_loop"]

\* Where control goes when ScrapeProvider returns v: to the caller of an ad hoc
\* call, or back into the loop of ScrapeAll or of runIfNeeded (which log v).
ReturnFromScrapeProvider(r, v) ==
    IF r.op = "ScrapeProvider"
    THEN [r EXCEPT !.pc = "idle", !.ret = v]
    ELSE IF r.op = "runIfNeeded"
         THEN [r EXCEPT !.pc = "rin_loop"]
         ELSE [r EXCEPT !.pc = "sa_loop"]

\* A variant in which a storage error ends the storing loop.
NextPrice_StopOnError(r, pcLoop, done) ==
    IF r.i < Len(r.prices) /\ r.log[Len(r.log)].res # StorageError
    THEN [r EXCEPT !.pc = pcLoop, !.i = r.i + 1]
    ELSE done

\* The end of one iteration of the storing loop (`continue`, or the loop's end).
NextPrice(r, pcLoop, done) ==
    IF r.i < Len(r.prices)
    THEN [r EXCEPT !.pc = pcLoop, !.i = r.i + 1]
    ELSE done

(***************************************************************************)
(* Scraper.New and Scraper.RegisterProvider.  The registry is the three    *)
(* fields providers, providerMetrics and the Metrics objects allocated.    *)
(***************************************************************************)
NewScraper == [providers |-> <<>>, providerMetrics |-> <<>>, heap |-> <<>>]

\* A variant that keeps the Metrics object of a name registered before.
Register_KeepMetrics(reg, p) ==
    LET names == DOMAIN reg.providers \cup {p.name}
        known == p.name \in DOMAIN reg.providers
    IN  [providers |-> [n \in names |-> IF n = p.name THEN p ELSE reg.providers[n]],
         providerMetrics |-> [n \in names |-> IF n = p.name /\ ~known THEN Len(reg.heap) + 1
                                              ELSE reg.providerMetrics[n]],
         heap |-> IF known THEN reg.heap ELSE Append(reg.heap, NewMetrics)]

\* s.providers[p.Name()] = p; s.providerMetrics[p.Name()] = &Metrics{}
Register(reg, p) ==
    LET names == DOMAIN reg.providers \cup {p.name}
    IN  [providers |-> [n \in names |-> IF n = p.name THEN p ELSE reg.providers[n]],
         providerMetrics |-> [n \in names |-> IF n = p.name THEN Len(reg.heap) + 1
                                              ELSE reg.providerMetrics[n]],
         heap |-> Append(reg.heap, NewMetrics)]

RECURSIVE RegisterAll(_, _)
RegisterAll(reg, ps) ==
    IF ps = <<>> THEN reg ELSE RegisterAll(Register(reg, Head(ps)), Tail(ps))

RegisterProvider(p) ==
    /\ Len(heap) < MaxRegs
    /\ LET reg == Register([providers |-> providers, providerMetrics |-> providerMetrics,
                            heap |-> heap], p)
       IN  /\ providers' = reg.providers
           /\ providerMetrics' = reg.providerMetrics
           /\ heap' = reg.heap
    /\ UNCHANGED <<storeRawResponse, table, th, now, zone, schedVars>>

(***************************************************************************)
(* Scraper.GetMetrics and Metrics.GetSnapshot.  What a caller holds is     *)
(* either a pointer to a Metrics object or a value of its own; Deref is    *)
(* what it reads through it.  The pointer fields of a snapshot             *)
(* (LastScrapeAt, LastPrice, LastError) point to variables that are        *)
(* written once, before the pointer is stored: an update stores a new      *)
(* pointer, so they are modelled by the values they point to.              *)
(***************************************************************************)
NilMetrics == 0
Pointer(m) == [kind |-> "ptr", addr |-> m, val |-> NewMetrics]
Value(v) == [kind |-> "val", addr |-> NilMetrics, val |-> v]
Deref(h, v) == IF v.kind = "ptr" THEN h[v.addr] ELSE v.val

\* return s.providerMetrics[providerName]: the pointer kept in the map, nil
\* for a name that is not registered.
GetMetrics(providerName) ==
    IF providerName \in DOMAIN providerMetrics THEN providerMetrics[providerName] ELSE NilMetrics

\* A variant that hands out the record itself.
GetSnapshot_Live(m) == Pointer(m)

\* MetricsSnapshot{TotalRequests: m.TotalRequests, ...}, under m.mu.RLock().
GetSnapshot(m) ==
    Value([TotalRequests |-> heap[m].TotalRequests, TotalErrors |-> heap[m].TotalErrors,
           LastScrapeAt |-> heap[m].LastScrapeAt,
           LastScrapeSuccess |-> heap[m].LastScrapeSuccess,
           LastResponseTime |-> heap[m].LastResponseTime,
           LastPrice |-> heap[m].LastPrice, LastError |-> heap[m].LastError,
           LastRawResponse |-> heap[m].LastRawResponse])

(***************************************************************************)
(* An ad hoc caller starts a call.                                         *)
(***************************************************************************)
CallScrapeProvider(t, n) ==
    /\ th[t].pc = "idle" /\ th[t].calls > 0
    /\ th' = [th EXCEPT ![t] = [Enter(IdleThread(th[t].calls - 1), "sp_lookup", n) EXCEPT
                !.op = "ScrapeProvider", !.pre = heap]]
    /\ UNCHANGED <<providers, providerMetrics, heap, storeRawResponse, table, now, zone, schedVars>>

CallScrapeAll(t) ==
    /\ th[t].pc = "idle" /\ th[t].calls >= Cardinality(Registered) /\ th[t].calls > 0
    /\ th' = [th EXCEPT ![t] = [IdleThread(th[t].calls - Cardinality(Registered)) EXCEPT
                !.pc = "sa_snapshot", !.op = "ScrapeAll", !.pre = heap]]
    /\ UNCHANGED <<providers, providerMetrics, heap, storeRawResponse, table, now, zone, schedVars>>

\* backfill --from <day> [--to <day>]: from is parsed as a UTC midnight, to
\* defaults to time.Now().
BackfillFroms == {[abs |-> Truncate24h(TimeNow).abs - d * Day24h, loc |-> "UTC"] : d \in {0, 1}}

CallBackfill(t, n, from) ==
    /\ th[t].pc = "idle" /\ th[t].calls > 0
    /\ th' = [th EXCEPT ![t] = [Enter(IdleThread(th[t].calls - 1), "bf_lookup", n) EXCEPT
                !.op = "Backfill", !.pre = heap, !.from = from, !.to = TimeNow]]
    /\ UNCHANGED <<providers, providerMetrics, heap, storeRawResponse, table, now, zone, schedVars>>

(***************************************************************************)
(* Scraper.ScrapeAll                                                       *)
(***************************************************************************)
\* The copy of the provider list under the read lock.
ScrapeAllSnapshot(t) ==
    /\ th[t].pc = "sa_snapshot"
    /\ \E q \in Orders(Registered) :
          th' = [th EXCEPT ![t].queue = q, ![t].pc = "sa_loop"]
    /\ UNCHANGED <<providers, providerMetrics, heap, storeRawResponse, table, now, zone, schedVars>>

\* A variant that ranges over the registry itself, not over the copy.
ScrapeAllLoop_Live(t) ==
    /\ th[t].pc = "sa_loop"
    /\ LET r == th[t]
           left == Registered \ {r.seen[j].n : j \in DOMAIN r.seen}
       IN  \E q \in Orders(left) :
              th' = [th EXCEPT ![t] =
                       IF q # <<>>
                       THEN [Enter(r, "sp_lookup", Head(q)) EXCEPT !.queue = Tail(q)]
                       ELSE IF r.op = "runScrape"
                            THEN [r EXCEPT !.pc = "st_recalc", !.ret = Nil]
                            ELSE [r EXCEPT !.pc = "idle", !.ret = Nil]]
    /\ UNCHANGED <<providers, providerMetrics, heap, storeRawResponse, table, now, zone, schedVars>>

\* for _, provider := range providers { s.ScrapeProvider(ctx, provider.Name()) };
\* return nil.
ScrapeAllLoop(t) ==
    /\ th[t].pc = "sa_loop"
    /\ LET r == th[t]
       IN  th' = [th EXCEPT ![t] =
                    IF r.queue # <<>>
                    THEN [Enter(r, "sp_lookup", Head(r.queue)) EXCEPT !.queue = Tail(r.queue)]
                    ELSE IF r.op = "runScrape"
                         THEN [r EXCEPT !.pc = "st_recalc", !.ret = Nil]
                         ELSE [r EXCEPT !.pc = "idle", !.ret = Nil]]
    /\ UNCHANGED <<providers, providerMetrics, heap, storeRawResponse, table, now, zone, schedVars>>

(***************************************************************************)
(* Scraper.ScrapeProvider                                                  *)
(***************************************************************************)
\* A variant without the `if exists { continue }`.
SkipsUpsert_ErrorOnly(res) == res = StorageError

\* if err != nil { continue }; if exists { continue }: the storing loop goes on
\* to the upsert only when the existence check answered false.
SkipsUpsert(res) == res # "false"

\* A variant that reports an unknown name as an error.
ScrapeProviderLookup_NotFound(t) ==
    /\ th[t].pc = "sp_lookup"
    /\ LET r == th[t]
       IN  th' = [th EXCEPT ![t] =
                    IF r.name \in Registered
                    THEN [r EXCEPT !.pc = "sp_count", !.provider = providers[r.name],
                                   !.metrics = providerMetrics[r.name]]
                    ELSE ReturnFromScrapeProvider(r, "provider not found")]
    /\ UNCHANGED <<providers, providerMetrics, heap, storeRawResponse, table, now, zone, schedVars>>

\* provider, ok := s.providers[name]; metrics := s.providerMetrics[name];
\* if !ok { return nil }.
ScrapeProviderLookup(t) ==
    /\ th[t].pc = "sp_lookup"
    /\ LET r == th[t]
       IN  th' = [th EXCEPT ![t] =
                    IF r.name \in Registered
                    THEN [r EXCEPT !.pc = "sp_count", !.provider = providers[r.name],
                                   !.metrics = providerMetrics[r.name]]
                    ELSE ReturnFromScrapeProvider(r, Nil)]
    /\ UNCHANGED <<providers, providerMetrics, heap, storeRawResponse, table, now, zone, schedVars>>

\* A variant that adds one to the count read when the call began.
ScrapeProviderCount_Stale(t) ==
    /\ th[t].pc = "sp_count"
    /\ heap' = [heap EXCEPT ![th[t].metrics].TotalRequests = th[t].pre[th[t].metrics].TotalRequests + 1]
    /\ th' = [th EXCEPT ![t].pc = "sp_fetch", ![t].start = now]
    /\ UNCHANGED <<providers, providerMetrics, storeRawResponse, table, now, zone, schedVars>>

\* start := time.Now(); metrics.TotalRequests++ (under metrics.mu).
ScrapeProviderCount(t) ==
    /\ th[t].pc = "sp_count"
    /\ heap' = [heap EXCEPT ![th[t].metrics].TotalRequests = @ + 1]
    /\ th' = [th EXCEPT ![t].pc = "sp_fetch", ![t].start = now]
    /\ UNCHANGED <<providers, providerMetrics, storeRawResponse, table, now, zone, schedVars>>

\* A variant that looks the Metrics object up again after the fetch.
ScrapeProviderFetch_Relookup(t) ==
    /\ th[t].pc = "sp_fetch"
    /\ \E out \in IF CtxDone(t) THEN {[err |-> CtxCanceled, prices |-> <<>>]}
                   ELSE FetchCurrentPrices(th[t].provider, TimeNow) :
          th' = [th EXCEPT ![t] = [th[t] EXCEPT
                    !.pc = "sp_update", !.prices = out.prices, !.err = out.err,
                    !.metrics = providerMetrics[th[t].name],
                    !.seen = Append(th[t].seen, [n |-> th[t].name, err |-> out.err,
                                                 first |-> IF out.prices = <<>> THEN None
                                                           ELSE Some(out.prices[1].PricePer100L)])]]
    /\ UNCHANGED <<providers, providerMetrics, heap, storeRawResponse, table, now, zone, schedVars>>

\* prices, err := provider.FetchCurrentPrices(ctx)
ScrapeProviderFetch(t) ==
    /\ th[t].pc = "sp_fetch"
    /\ \E out \in IF CtxDone(t) THEN {[err |-> CtxCanceled, prices |-> <<>>]}
                   ELSE FetchCurrentPrices(th[t].provider, TimeNow) :
          th' = [th EXCEPT ![t] = [th[t] EXCEPT
                    !.pc = "sp_update", !.prices = out.prices, !.err = out.err,
                    !.seen = Append(th[t].seen, [n |-> th[t].name, err |-> out.err,
                                                 first |-> IF out.prices = <<>> THEN None
                                                           ELSE Some(out.prices[1].PricePer100L)])]]
    /\ UNCHANGED <<providers, providerMetrics, heap, storeRawResponse, table, now, zone, schedVars>>

\* A variant in which a successful scrape clears the error count.
ScrapeProviderUpdate_ClearErrors(t) ==
    /\ th[t].pc = "sp_update"
    /\ LET r == th[t]
           m == r.metrics
       IN  IF r.err # Nil
           THEN /\ heap' = [heap EXCEPT ![m] = MetricsOnError(@, r.err, now, now - r.start)]
                /\ th' = [th EXCEPT ![t] = ReturnFromScrapeProvider(r, r.err)]
           ELSE /\ heap' = [heap EXCEPT ![m] = [MetricsOnSuccess(@, r.prices, now, now - r.start)
                                                  EXCEPT !.TotalErrors = 0]]
                /\ th' = [th EXCEPT ![t] =
                            IF Len(r.prices) = 0
                            THEN ReturnFromScrapeProvider(r, Nil)
                            ELSE [r EXCEPT !.pc = "sp_exists", !.i = 1]]
    /\ UNCHANGED <<providers, providerMetrics, storeRawResponse, table, now, zone, schedVars>>

\* The locked metrics update, then `return err` or the start of the storing loop.
ScrapeProviderUpdate(t) ==
    /\ th[t].pc = "sp_update"
    /\ LET r == th[t]
           m == r.metrics
       IN  IF r.err # Nil
           THEN /\ heap' = [heap EXCEPT ![m] = MetricsOnError(@, r.err, now, now - r.start)]
                /\ th' = [th EXCEPT ![t] = ReturnFromScrapeProvider(r, r.err)]
           ELSE /\ heap' = [heap EXCEPT ![m] = MetricsOnSuccess(@, r.prices, now, now - r.start)]
                /\ th' = [th EXCEPT ![t] =
                            IF Len(r.prices) = 0
                            THEN ReturnFromScrapeProvider(r, Nil)
                            ELSE [r EXCEPT !.pc = "sp_exists", !.i = 1]]
    /\ UNCHANGED <<providers, providerMetrics, storeRawResponse, table, now, zone, schedVars>>

\* A variant that refreshes a record it finds.
ScrapeProviderExists_Refresh(t) ==
    /\ th[t].pc = "sp_exists"
    /\ LET r == th[t]
           price == r.prices[r.i]
           found == ExistsForDate(table, price.Provider, price.ProductType, price.Date, price.ZipCode)
       IN  \E res \in IF CtxDone(t) THEN {StorageError}
                      ELSE {IF found THEN "true" ELSE "false", StorageError} :
              LET logged == [r EXCEPT !.log = Append(r.log, [k |-> "exists", i |-> r.i, res |-> res, found |-> found])]
              IN  /\ th' = [th EXCEPT ![t] =
                              IF ~SkipsUpsert(res)
                              THEN [logged EXCEPT !.pc = "sp_insert"]
                              ELSE NextPrice(logged, "sp_exists", ReturnFromScrapeProvider(logged, Nil))]
                  /\ table' = IF res = "true"
                              THEN InsertPrice(table, price, storeRawResponse, now)
                              ELSE table
    /\ UNCHANGED <<providers, providerMetrics, heap, storeRawResponse, now, zone, schedVars>>

\* exists, err := s.db.ExistsForDate(...): on an error or when the record exists,
\* continue with the next price.
ScrapeProviderExists(t) ==
    /\ th[t].pc = "sp_exists"
    /\ LET r == th[t]
           price == r.prices[r.i]
           found == ExistsForDate(table, price.Provider, price.ProductType, price.Date, price.ZipCode)
       IN  \E res \in IF CtxDone(t) THEN {StorageError}
                      ELSE {IF found THEN "true" ELSE "false", StorageError} :
              LET logged == [r EXCEPT !.log = Append(r.log, [k |-> "exists", i |-> r.i, res |-> res, found |-> found])]
              IN  th' = [th EXCEPT ![t] =
                           IF ~SkipsUpsert(res)
                           THEN [logged EXCEPT !.pc = "sp_insert"]
                           ELSE NextPrice(logged, "sp_exists", ReturnFromScrapeProvider(logged, Nil))]
    /\ UNCHANGED <<providers, providerMetrics, heap, storeRawResponse, table, now, zone, schedVars>>

\* s.db.InsertPrice(ctx, price, s.storeRawResponse): an error is logged.
ScrapeProviderInsert(t) ==
    /\ th[t].pc = "sp_insert"
    /\ LET r == th[t]
           price == r.prices[r.i]
           found == ExistsForDate(table, price.Provider, price.ProductType, price.Date, price.ZipCode)
       IN  \E res \in IF CtxDone(t) THEN {StorageError} ELSE {"ok", StorageError} :
              LET logged == [r EXCEPT !.log = Append(r.log, [k |-> "insert", i |-> r.i, res |-> res, found |-> found])]
              IN  /\ table' = IF res = "ok"
                              THEN InsertPrice(table, price, storeRawResponse, now)
                              ELSE table
                  /\ th' = [th EXCEPT ![t] =
                              NextPrice(logged, "sp_exists", ReturnFromScrapeProvider(logged, Nil))]
    /\ UNCHANGED <<providers, providerMetrics, heap, storeRawResponse, now, zone, schedVars>>

(***************************************************************************)
(* Scraper.Backfill                                                        *)
(***************************************************************************)
\* A variant without the check of SupportsBackfill.
BackfillLookup_Unchecked(t) ==
    /\ th[t].pc = "bf_lookup"
    /\ LET r == th[t]
       IN  th' = [th EXCEPT ![t] =
                    IF r.name \in Registered
                    THEN [r EXCEPT !.pc = "bf_fetch", !.provider = providers[r.name]]
                    ELSE [r EXCEPT !.pc = "idle", !.ret = Nil]]
    /\ UNCHANGED <<providers, providerMetrics, heap, storeRawResponse, table, now, zone, schedVars>>

\* provider, ok := s.providers[name]; if !ok { return nil };
\* if !provider.SupportsBackfill() { return nil }.
BackfillLookup(t) ==
    /\ th[t].pc = "bf_lookup"
    /\ LET r == th[t]
       IN  th' = [th EXCEPT ![t] =
                    IF r.name \in Registered /\ providers[r.name].backfill
                    THEN [r EXCEPT !.pc = "bf_fetch", !.provider = providers[r.name]]
                    ELSE [r EXCEPT !.pc = "idle", !.ret = Nil]]
    /\ UNCHANGED <<providers, providerMetrics, heap, storeRawResponse, table, now, zone, schedVars>>

\* A variant that counts a failed historical fetch as an error of the provider.
BackfillFetch_CountsError(t) ==
    /\ th[t].pc = "bf_fetch"
    /\ LET r == th[t]
       IN  \E out \in IF CtxDone(t) THEN {[err |-> CtxCanceled, prices |-> <<>>]}
                      ELSE FetchHistoricalPrices(r.provider, r.from, r.to, TimeNow) :
              LET f == [r EXCEPT !.prices = out.prices, !.err = out.err,
                                 !.seen = Append(r.seen, [n |-> r.name, err |-> out.err,
                                                 first |-> IF out.prices = <<>> THEN None
                                                           ELSE Some(out.prices[1].PricePer100L)])]
              IN  /\ th' = [th EXCEPT ![t] =
                              IF out.err # Nil
                              THEN [f EXCEPT !.pc = "idle", !.ret = out.err]
                              ELSE IF Len(out.prices) = 0
                                   THEN [f EXCEPT !.pc = "idle", !.ret = Nil]
                                   ELSE [f EXCEPT !.pc = "bf_exists", !.i = 1]]
                  /\ heap' = IF out.err # Nil
                             THEN [heap EXCEPT ![providerMetrics[r.name]].TotalErrors = @ + 1]
                             ELSE heap
    /\ UNCHANGED <<providers, providerMetrics, storeRawResponse, table, now, zone, schedVars>>

\* prices, err := provider.FetchHistoricalPrices(ctx, from, to);
\* if err != nil { return err }.
BackfillFetch(t) ==
    /\ th[t].pc = "bf_fetch"
    /\ LET r == th[t]
       IN  \E out \in IF CtxDone(t) THEN {[err |-> CtxCanceled, prices |-> <<>>]}
                      ELSE FetchHistoricalPrices(r.provider, r.from, r.to, TimeNow) :
              LET f == [r EXCEPT !.prices = out.prices, !.err = out.err,
                                 !.seen = Append(r.seen, [n |-> r.name, err |-> out.err,
                                                 first |-> IF out.prices = <<>> THEN None
                                                           ELSE Some(out.prices[1].PricePer100L)])]
              IN  th' = [th EXCEPT ![t] =
                           IF out.err # Nil
                           THEN [f EXCEPT !.pc = "idle", !.ret = out.err]
                           ELSE IF Len(out.prices) = 0
                                THEN [f EXCEPT !.pc = "idle", !.ret = Nil]
                                ELSE [f EXCEPT !.pc = "bf_exists", !.i = 1]]
    /\ UNCHANGED <<providers, providerMetrics, heap, storeRawResponse, table, now, zone, schedVars>>

\* A variant that does not count the observations it skips.
BackfillExists_Uncounted(t) ==
    /\ th[t].pc = "bf_exists"
    /\ LET r == th[t]
           price == r.prices[r.i]
           found == ExistsForDate(table, price.Provider, price.ProductType, price.Date, price.ZipCode)
       IN  \E res \in IF CtxDone(t) THEN {StorageError}
                      ELSE {IF found THEN "true" ELSE "false", StorageError} :
              LET logged == [r EXCEPT !.log = Append(r.log, [k |-> "exists", i |-> r.i, res |-> res, found |-> found])]
              IN  th' = [th EXCEPT ![t] =
                           IF ~SkipsUpsert(res)
                           THEN [logged EXCEPT !.pc = "bf_insert"]
                           ELSE NextPrice(logged, "bf_exists", [logged EXCEPT !.pc = "idle", !.ret = Nil])]
    /\ UNCHANGED <<providers, providerMetrics, heap, storeRawResponse, table, now, zone, schedVars>>

\* exists, err := s.db.ExistsForDate(...): continue on an error; skipped++ and
\* continue when the record exists.
BackfillExists(t) ==
    /\ th[t].pc = "bf_exists"
    /\ LET r == th[t]
           price == r.prices[r.i]
           found == ExistsForDate(table, price.Provider, price.ProductType, price.Date, price.ZipCode)
       IN  \E res \in IF CtxDone(t) THEN {StorageError}
                      ELSE {IF found THEN "true" ELSE "false", StorageError} :
              LET logged == [r EXCEPT !.log = Append(r.log, [k |-> "exists", i |-> r.i, res |-> res, found |-> found]),
                                      !.skipped = IF res = "true" THEN r.skipped + 1 ELSE r.skipped]
              IN  th' = [th EXCEPT ![t] =
                           IF ~SkipsUpsert(res)
                           THEN [logged EXCEPT !.pc = "bf_insert"]
                           ELSE NextPrice(logged, "bf_exists", [logged EXCEPT !.pc = "idle", !.ret = Nil])]
    /\ UNCHANGED <<providers, providerMetrics, heap, storeRawResponse, table, now, zone, schedVars>>

\* s.db.InsertPrice(ctx, price, s.storeRawResponse): an error is logged,
\* otherwise inserted++.
BackfillInsert(t) ==
    /\ th[t].pc = "bf_insert"
    /\ LET r == th[t]
           price == r.prices[r.i]
           found == ExistsForDate(table, price.Provider, price.ProductType, price.Date, price.ZipCode)
       IN  \E res \in IF CtxDone(t) THEN {StorageError} ELSE {"ok", StorageError} :
              LET logged == [r EXCEPT !.log = Append(r.log, [k |-> "insert", i |-> r.i, res |-> res, found |-> found]),
                                      !.inserted = IF res = "ok" THEN r.inserted + 1 ELSE r.inserted]
              IN  /\ table' = IF res = "ok"
                              THEN InsertPrice(table, price, storeRawResponse, now)
                              ELSE table
                  /\ th' = [th EXCEPT ![t] =
                              NextPrice(logged, "bf_exists", [logged EXCEPT !.pc = "idle", !.ret = Nil])]
    /\ UNCHANGED <<providers, providerMetrics, heap, storeRawResponse, now, zone, schedVars>>

(***************************************************************************)
(* Scraper.HasScrapedToday and the scheduler (Scheduler.Start, runIfNeeded, *)
(* runScrape, calculateNextScrapeTime), run by the thread "sched".         *)
(***************************************************************************)
\* A variant without the early return for local providers.
HasScrapedToday_AnyScope(t, name) ==
    IF name \notin Registered
    THEN {"false"}
    ELSE IF CtxDone(t)
         THEN {StorageError}
         ELSE {IF ExistsForDate(table, name, "standard", Truncate24h(TimeNow), "")
               THEN "true" ELSE "false", StorageError}

\* What HasScrapedToday(ctx, name) can answer for thread t: false for an unknown
\* or a local provider, else whether a "standard" record without zip code is
\* stored for time.Now().Truncate(24 * time.Hour), or the storage error.
HasScrapedToday(t, name) ==
    IF name \notin Registered
    THEN {"false"}
    ELSE IF providers[name].scope = PriceScopeLocal
         THEN {"false"}
         ELSE IF CtxDone(t)
              THEN {StorageError}
              ELSE {IF ExistsForDate(table, name, "standard", Truncate24h(TimeNow), "")
                    THEN "true" ELSE "false", StorageError}

\* calculateNextScrapeTime: today at the scrape hour, a day of 24 hours later
\* when now is after it.
calculateNextScrapeTime(nowT, hour) ==
    LET nextScrape == DateLocal(FormatDate(nowT), hour)
    IN  IF After(nowT, nextScrape)
        THEN [nextScrape EXCEPT !.abs = nextScrape.abs + Day24h]
        ELSE nextScrape

\* A variant that also scrapes when the check failed.
NeedsScrape_UnlessTrue(res) == res # "true"

\* if err != nil { continue }; if !hasScraped { ScrapeProvider }.
NeedsScrape(res) == res = "false"

\* s.running = true; the deferred s.running = false runs at the return.
Start ==
    /\ th["sched"].pc = "idle" /\ th["sched"].op = ""
    /\ running' = TRUE
    /\ th' = [th EXCEPT !["sched"] =
                [th["sched"] EXCEPT !.pc = "rin_providers", !.op = "runIfNeeded"]]
    /\ UNCHANGED <<providers, providerMetrics, heap, storeRawResponse, table, now, zone,
                   scrapeHour, nextScrapeAt, lastScrapeAt, timer, cancelled>>

\* providers := s.scraper.GetProviders()
runIfNeededProviders ==
    /\ th["sched"].pc = "rin_providers"
    /\ \E q \in Orders(Registered) :
          th' = [th EXCEPT !["sched"] = [th["sched"] EXCEPT !.queue = q, !.pc = "rin_loop"]]
    /\ UNCHANGED <<providers, providerMetrics, heap, storeRawResponse, table, now, zone, schedVars>>

\* A variant in which a failed check ends the catch-up pass.
runIfNeededLoop_ReturnOnError ==
    /\ th["sched"].pc = "rin_loop"
    /\ LET r == th["sched"]
           failed == r.hst # <<>> /\ r.hst[Len(r.hst)].res = StorageError
       IN  th' = [th EXCEPT !["sched"] =
                    IF r.queue # <<>> /\ ~failed
                    THEN [r EXCEPT !.pc = "rin_check", !.name = Head(r.queue), !.queue = Tail(r.queue)]
                    ELSE [r EXCEPT !.pc = "st_calc"]]
    /\ UNCHANGED <<providers, providerMetrics, heap, storeRawResponse, table, now, zone, schedVars>>

\* for _, provider := range providers
runIfNeededLoop ==
    /\ th["sched"].pc = "rin_loop"
    /\ LET r == th["sched"]
       IN  th' = [th EXCEPT !["sched"] =
                    IF r.queue # <<>>
                    THEN [r EXCEPT !.pc = "rin_check", !.name = Head(r.queue), !.queue = Tail(r.queue)]
                    ELSE [r EXCEPT !.pc = "st_calc"]]
    /\ UNCHANGED <<providers, providerMetrics, heap, storeRawResponse, table, now, zone, schedVars>>

\* A variant in which the catch-up scrape stamps lastScrapeAt.
runIfNeededCheck_Stamped ==
    /\ th["sched"].pc = "rin_check"
    /\ \E res \in HasScrapedToday("sched", th["sched"].name) :
          LET r == th["sched"]
              checked == [r EXCEPT !.hst = Append(r.hst, [n |-> r.name, res |-> res])]
          IN  /\ th' = [th EXCEPT !["sched"] =
                          IF NeedsScrape(res)
                          THEN Enter(checked, "sp_lookup", r.name)
                          ELSE [checked EXCEPT !.pc = "rin_loop"]]
              /\ lastScrapeAt' = IF NeedsScrape(res) THEN Some(now) ELSE lastScrapeAt
    /\ UNCHANGED <<providers, providerMetrics, heap, storeRawResponse, table, now, zone,
                   scrapeHour, nextScrapeAt, running, timer, cancelled>>

\* hasScraped, err := s.scraper.HasScrapedToday(ctx, provider.Name()), and the
\* call of ScrapeProvider when it answered false.
runIfNeededCheck ==
    /\ th["sched"].pc = "rin_check"
    /\ LET r == th["sched"]
       IN  \E res \in HasScrapedToday("sched", r.name) :
              LET checked == [r EXCEPT !.hst = Append(r.hst, [n |-> r.name, res |-> res])]
              IN  th' = [th EXCEPT !["sched"] =
                           IF NeedsScrape(res)
                           THEN Enter(checked, "sp_lookup", r.name)
                           ELSE [checked EXCEPT !.pc = "rin_loop"]]
    /\ UNCHANGED <<providers, providerMetrics, heap, storeRawResponse, table, now, zone, schedVars>>

\* A variant that arms the timer and does not publish the instant.
StartSchedule_Unpublished ==
    /\ th["sched"].pc \in {"st_calc", "st_recalc"}
    /\ LET nextScrape == calculateNextScrapeTime(TimeNow, scrapeHour)
       IN  /\ nextScrapeAt' = nextScrapeAt
           /\ timer' = Some(nextScrape.abs)
    /\ th' = [th EXCEPT !["sched"] =
                [Enter(th["sched"], "st_wait", "") EXCEPT !.queue = <<>>, !.ret = "none"]]
    /\ UNCHANGED <<providers, providerMetrics, heap, storeRawResponse, table, now, zone,
                   scrapeHour, lastScrapeAt, running, cancelled>>

\* nextScrape := s.calculateNextScrapeTime(); s.nextScrapeAt = nextScrape;
\* timer := time.NewTimer(time.Until(nextScrape)), and after a scheduled
\* scrape the same with timer.Reset.
StartSchedule ==
    /\ th["sched"].pc \in {"st_calc", "st_recalc"}
    /\ LET nextScrape == calculateNextScrapeTime(TimeNow, scrapeHour)
       IN  /\ nextScrapeAt' = nextScrape.abs
           /\ timer' = Some(nextScrape.abs)
    /\ th' = [th EXCEPT !["sched"] =
                [Enter(th["sched"], "st_wait", "") EXCEPT !.queue = <<>>, !.ret = "none"]]
    /\ UNCHANGED <<providers, providerMetrics, heap, storeRawResponse, table, now, zone,
                   scrapeHour, lastScrapeAt, running, cancelled>>

\* A variant whose select takes the timer's case before its instant.
StartTimerFired_Early ==
    /\ th["sched"].pc = "st_wait" /\ timer # None
    /\ th["sched"].fires < MaxFires
    /\ now' = IF now > timer[1] THEN now ELSE timer[1] + 1
    /\ timer' = None
    /\ th' = [th EXCEPT !["sched"] =
                [th["sched"] EXCEPT !.pc = "rs_start", !.fired = timer, !.fires = th["sched"].fires + 1]]
    /\ UNCHANGED <<providers, providerMetrics, heap, storeRawResponse, table, zone,
                   scrapeHour, nextScrapeAt, lastScrapeAt, running, cancelled>>

\* case <-timer.C: time has passed until after the instant the timer was set
\* to.  A context that was done before that instant wins the select; with
\* the instant reached and the context done both cases are ready, and the
\* select takes either.
StartTimerFired ==
    /\ th["sched"].pc = "st_wait" /\ timer # None
    /\ th["sched"].fires < MaxFires
    /\ ~cancelled \/ now >= timer[1]
    /\ now' = IF now > timer[1] THEN now ELSE timer[1] + 1
    /\ timer' = None
    /\ th' = [th EXCEPT !["sched"] =
                [th["sched"] EXCEPT !.pc = "rs_start", !.fired = timer, !.fires = th["sched"].fires + 1]]
    /\ UNCHANGED <<providers, providerMetrics, heap, storeRawResponse, table, zone,
                   scrapeHour, nextScrapeAt, lastScrapeAt, running, cancelled>>

\* runScrape: now := time.Now(); s.lastScrapeAt = &now; s.scraper.ScrapeAll(ctx).
runScrape ==
    /\ th["sched"].pc = "rs_start"
    /\ lastScrapeAt' = Some(now)
    /\ th' = [th EXCEPT !["sched"] =
                [th["sched"] EXCEPT !.pc = "sa_snapshot", !.op = "runScrape", !.seen = <<>>,
                                    !.hst = <<>>]]
    /\ UNCHANGED <<providers, providerMetrics, heap, storeRawResponse, table, now, zone,
                   scrapeHour, nextScrapeAt, running, timer, cancelled>>

\* A variant whose select has no case for ctx.Done(): the wait goes on.
StartCancelled_Deaf ==
    /\ th["sched"].pc = "st_wait" /\ cancelled
    /\ UNCHANGED vars

\* case <-ctx.Done(): return ctx.Err(), with the deferred timer.Stop() and
\* s.running = false.
StartCancelled ==
    /\ th["sched"].pc = "st_wait" /\ cancelled
    /\ running' = FALSE
    /\ timer' = None
    /\ th' = [th EXCEPT !["sched"] = [th["sched"] EXCEPT !.pc = "stopped", !.ret = CtxCanceled]]
    /\ UNCHANGED <<providers, providerMetrics, heap, storeRawResponse, table, now, zone,
                   scrapeHour, nextScrapeAt, lastScrapeAt, cancelled>>

\* The run command's cancel(), on SIGINT or SIGTERM.
Cancel ==
    /\ ~cancelled
    /\ cancelled' = TRUE
    /\ UNCHANGED <<providers, providerMetrics, heap, storeRawResponse, table, th, now, zone,
                   scrapeHour, nextScrapeAt, lastScrapeAt, running, timer>>

(***************************************************************************)
(* Specification of the orchestrator under ad hoc callers.                 *)
(***************************************************************************)
Noon == Day24h + (12 * TicksPerHour)

\* The state the commands leave after scraper.New and their RegisterProvider
\* calls on the provider list ps, before any scrape.
InitWith(ps) ==
    /\ LET reg == RegisterAll(NewScraper, ps)
       IN  /\ providers = reg.providers
           /\ providerMetrics = reg.providerMetrics
           /\ heap = reg.heap
    /\ nextScrapeAt = ZeroTime
    /\ lastScrapeAt = None
    /\ running = FALSE
    /\ timer = None
    /\ cancelled = FALSE

\* --providers heizoel24,hoyer and its sublists, each provider on a day when
\* upstream quotes the standard product for today only.
ProviderLists ==
    {<<>>, <<Narrow(HeizOel24)>>, <<Narrow(Hoyer("12345"))>>,
     <<Narrow(HeizOel24), Narrow(Hoyer("12345"))>>}

\* SCRAPE_HOUR: accepted when it lies in 0..23, 6 when not given.
ScrapeHours == 0..(HoursPerDay - 1)
DefaultScrapeHour == 6

Init ==
    /\ \E ps \in ProviderLists : InitWith(ps)
    /\ table = EmptyBag
    /\ now = Noon
    /\ zone = UTCZone
    /\ scrapeHour = DefaultScrapeHour
    /\ storeRawResponse \in BOOLEAN
    /\ th = [t \in Threads |-> IdleThread(IF t = "t1" THEN MaxScrapes ELSE 0)]

Next ==
    \/ \E t \in Callers, n \in CallNames : CallScrapeProvider(t, n)
    \/ \E t \in Callers : CallScrapeAll(t)
    \/ \E t \in Callers, n \in CallNames, from \in BackfillFroms : CallBackfill(t, n, from)
    \/ \E t \in Callers : ScrapeAllSnapshot(t)
    \/ \E t \in Callers : ScrapeAllLoop(t)
    \/ \E t \in Callers : ScrapeProviderLookup(t)
    \/ \E t \in Callers : ScrapeProviderCount(t)
    \/ \E t \in Callers : ScrapeProviderFetch(t)
    \/ \E t \in Callers : ScrapeProviderUpdate(t)
    \/ \E t \in Callers : ScrapeProviderExists(t)
    \/ \E t \in Callers : ScrapeProviderInsert(t)
    \/ \E t \in Callers : BackfillLookup(t)
    \/ \E t \in Callers : BackfillFetch(t)
    \/ \E t \in Callers : BackfillExists(t)
    \/ \E t \in Callers : BackfillInsert(t)

Spec == Init /\ [][Next]_vars

(***************************************************************************)
(* Specification of two callers racing on one provider: two commands run   *)
(* against the same store, each making MaxRaceCalls calls.                 *)
(***************************************************************************)
RaceProviderLists == {<<Narrow(HeizOel24)>>, <<Narrow(Hoyer("12345"))>>}

InitRace ==
    /\ \E ps \in RaceProviderLists : InitWith(ps)
    /\ table = EmptyBag
    /\ now = Noon
    /\ zone = UTCZone
    /\ scrapeHour = DefaultScrapeHour
    /\ storeRawResponse = FALSE
    /\ th = [t \in Threads |-> IdleThread(IF t \in Callers THEN MaxRaceCalls ELSE 0)]

SpecRace == InitRace /\ [][Next]_vars

(***************************************************************************)
(* Specification of the scheduler's first computation of nextScrapeAt, for *)
(* every scrape hour, zone and instant of the first MaxDays days: the run  *)
(* command with no provider registered.                                    *)
(***************************************************************************)
InitCalc ==
    /\ InitWith(<<>>)
    /\ table = EmptyBag
    /\ now \in 0..(MaxDays * Day24h)
    /\ zone \in Zones
    /\ scrapeHour \in ScrapeHours
    /\ storeRawResponse = FALSE
    /\ th = [t \in Threads |-> IdleThread(0)]

NextCalc ==
    \/ Start
    \/ runIfNeededProviders
    \/ runIfNeededLoop
    \/ StartSchedule

SpecCalc == InitCalc /\ [][NextCalc]_vars

(***************************************************************************)
(* Specification of the run command: the scheduler alone, started at noon  *)
(* of the day before the zone's change, over a store that is empty or      *)
(* holds today's national record of an earlier run.                        *)
(***************************************************************************)
SchedHeizOel24 == Steady(Narrow(HeizOel24))
SchedHoyer == Steady(Narrow(Hoyer("12345")))
SchedProviderLists == {<<>>, <<SchedHeizOel24>>, <<SchedHoyer>>, <<SchedHeizOel24, SchedHoyer>>}

\* The store after an earlier run has scraped heizoel24 this morning.
ScrapedThisMorning ==
    InsertPrice(EmptyBag,
                PriceResult(HeizOel24, "standard", [abs |-> Day24h, loc |-> "UTC"],
                            CHOOSE v \in Prices : TRUE, JsonBody,
                            [abs |-> Noon - TicksPerHour, loc |-> "Local"]),
                FALSE, Noon - TicksPerHour)

InitSched ==
    /\ \E ps \in SchedProviderLists : InitWith(ps)
    /\ table \in {EmptyBag, ScrapedThisMorning}
    /\ now = Noon
    /\ zone \in {UTCZone, FallBackZone}
    /\ scrapeHour = DefaultScrapeHour
    /\ storeRawResponse = FALSE
    /\ th = [t \in Threads |-> IdleThread(0)]

NextSched ==
    \/ Start
    \/ runIfNeededProviders
    \/ runIfNeededLoop
    \/ runIfNeededCheck
    \/ StartSchedule
    \/ StartTimerFired
    \/ runScrape
    \/ StartCancelled
    \/ Cancel
    \/ ScrapeAllSnapshot("sched")
    \/ ScrapeAllLoop("sched")
    \/ ScrapeProviderLookup("sched")
    \/ ScrapeProviderCount("sched")
    \/ ScrapeProviderFetch("sched")
    \/ ScrapeProviderUpdate("sched")
    \/ ScrapeProviderExists("sched")
    \/ ScrapeProviderInsert("sched")

SpecSched == InitSched /\ [][NextSched]_vars

\* The steps of the goroutine that runs Scheduler.Start: everything but the
\* passing of time (StartTimerFired) and the signal (Cancel).
SchedStep ==
    \/ Start
    \/ runIfNeededProviders
    \/ runIfNeededLoop
    \/ runIfNeededCheck
    \/ StartSchedule
    \/ runScrape
    \/ StartCancelled
    \/ ScrapeAllSnapshot("sched")
    \/ ScrapeAllLoop("sched")
    \/ ScrapeProviderLookup("sched")
    \/ ScrapeProviderCount("sched")
    \/ ScrapeProviderFetch("sched")
    \/ ScrapeProviderUpdate("sched")
    \/ ScrapeProviderExists("sched")
    \/ ScrapeProviderInsert("sched")

\* The run command with one provider and a goroutine that keeps running:
\* `go sched.Start(ctx)` is scheduled, and every fetch and storage call it
\* makes returns (the HTTP clients time out, the storage calls carry ctx).
InitFair ==
    /\ \E ps \in {<<SchedHeizOel24>>, <<SchedHoyer>>} : InitWith(ps)
    /\ table \in {EmptyBag, ScrapedThisMorning}
    /\ now = Noon
    /\ zone \in {UTCZone, FallBackZone}
    /\ scrapeHour = DefaultScrapeHour
    /\ storeRawResponse = FALSE
    /\ th = [t \in Threads |-> IdleThread(0)]

FairSpecSched == InitFair /\ [][NextSched]_vars /\ WF_vars(SchedStep)

(***************************************************************************)
(* Specification of the run command started on the scrape hour: with       *)
(* --scrape-hour 12 and a start at noon sharp the first instant computed   *)
(* is the present one, so the timer is due when Start reaches its select.  *)
(***************************************************************************)
InitStop ==
    /\ \E ps \in SchedProviderLists : InitWith(ps)
    /\ table \in {EmptyBag, ScrapedThisMorning}
    /\ now = Noon
    /\ zone = UTCZone
    /\ scrapeHour = 12
    /\ storeRawResponse = FALSE
    /\ th = [t \in Threads |-> IdleThread(0)]

SpecStop == InitStop /\ [][NextSched]_vars

(***************************************************************************)
(* Specification of the storage gateway and of HasScrapedToday as          *)
(* functions of the store: one caller upserts observations, MaxUpserts     *)
(* times, into a store that outlives the registry of the running command,  *)
(* and asks HasScrapedToday, at instants around midnight, in every zone.   *)
(***************************************************************************)
(* Specification of the orchestrator over the adapters' HTTP exchange: as  *)
(* Spec, and the response body may fail to close when a fetch returns.     *)
(***************************************************************************)
\* heizoel24 defers `if err := resp.Body.Close(); err != nil { panic(err) }`;
\* hoyer defers resp.Body.Close() and drops its error.
PanicsOnClose(p) == p.name = "heizoel24"

\* The fetch got a response (client.Do succeeded) and, whatever it returns,
\* the deferred Close fails: the goroutine panics, and nothing recovers.
FetchPanic(t) ==
    /\ th[t].pc \in {"sp_fetch", "bf_fetch"}
    /\ ~CtxDone(t)
    /\ PanicsOnClose(th[t].provider)
    /\ th' = [th EXCEPT ![t].pc = "panic"]
    /\ UNCHANGED <<providers, providerMetrics, heap, storeRawResponse, table, now, zone, schedVars>>

FetchProviderLists == {<<Narrow(HeizOel24)>>, <<Narrow(HeizOel24), Narrow(Hoyer("12345"))>>}

InitFetch ==
    /\ \E ps \in FetchProviderLists : InitWith(ps)
    /\ table = EmptyBag
    /\ now = Noon
    /\ zone = UTCZone
    /\ scrapeHour = DefaultScrapeHour
    /\ storeRawResponse = FALSE
    /\ th = [t \in Threads |-> IdleThread(IF t = "t1" THEN MaxScrapes ELSE 0)]

NextFetch ==
    \/ Next
    \/ \E t \in Callers : FetchPanic(t)

SpecFetch == InitFetch /\ [][NextFetch]_vars

(***************************************************************************)
(* Specification of the commands: every configuration a command accepts,   *)
(* the registry it builds from it, and the calls it then makes.  "t1" is   *)
(* the run or the scrape command, "t2" the backfill command.               *)
(***************************************************************************)
Commands == {"run", "scrape", "backfill"}

\* --zip-code / ZIP_CODE: any string, the empty one included.
ZipCodes == {"", "12345"}

\* A variant that requires no zip code of any command.
Accepts_AnyZip(cmd, zip) == TRUE

\* if cfg.ZipCode == "" { return fmt.Errorf("--zip-code is required") }: in
\* the run and the scrape command, not in the backfill command.
Accepts(cmd, zip) == cmd \in {"run", "scrape"} => zip # ""

\* --providers (run, scrape): a list over heizoel24 and hoyer; --provider
\* (backfill): one of the two.  hoyer is built with the configured zip code.
CmdProviderLists(cmd, zip) ==
    IF cmd = "backfill"
    THEN {<<Narrow(HeizOel24)>>, <<Narrow(Hoyer(zip))>>}
    ELSE {<<Narrow(HeizOel24)>>, <<Narrow(Hoyer(zip))>>, <<Narrow(HeizOel24), Narrow(Hoyer(zip))>>}

InitCmd ==
    /\ \E cmd \in Commands, zip \in ZipCodes :
          /\ Accepts(cmd, zip)
          /\ \E ps \in CmdProviderLists(cmd, zip) : InitWith(ps)
          /\ th = [t \in Threads |->
                     IF t = "t1" /\ cmd # "backfill" THEN IdleThread(MaxScrapes)
                     ELSE IF t = "t2" /\ cmd = "backfill" THEN IdleThread(1)
                     ELSE IdleThread(0)]
    /\ table = EmptyBag
    /\ now = Noon
    /\ zone = UTCZone
    /\ scrapeHour = DefaultScrapeHour
    /\ storeRawResponse = FALSE

NextCmd ==
    \/ \E n \in Registered : CallScrapeProvider("t1", n)
    \/ CallScrapeAll("t1")
    \/ \E n \in Registered, from \in BackfillFroms : CallBackfill("t2", n, from)
    \/ \E t \in Callers : ScrapeAllSnapshot(t)
    \/ \E t \in Callers : ScrapeAllLoop(t)
    \/ \E t \in Callers : ScrapeProviderLookup(t)
    \/ \E t \in Callers : ScrapeProviderCount(t)
    \/ \E t \in Callers : ScrapeProviderFetch(t)
    \/ \E t \in Callers : ScrapeProviderUpdate(t)
    \/ \E t \in Callers : ScrapeProviderExists(t)
    \/ \E t \in Callers : ScrapeProviderInsert(t)
    \/ \E t \in Callers : BackfillLookup(t)
    \/ \E t \in Callers : BackfillFetch(t)
    \/ \E t \in Callers : BackfillExists(t)
    \/ \E t \in Callers : BackfillInsert(t)

SpecCmd == InitCmd /\ [][NextCmd]_vars

(***************************************************************************)
(* Specification of the metrics preview: caller "t1" scrapes heizoel24 on  *)
(* days when upstream answers with bodies of sizes around the limit.       *)
(***************************************************************************)
\* Body sizes in bytes: the shortest JSON document the adapters parse, a
\* usual response, and sizes at, next to and far above the limit.
PayloadSizes == {2, JsonBody.len, PreviewLimit - 1, PreviewLimit, PreviewLimit + 1, 2 * PreviewLimit}

Payloads == {[len |-> n, body |-> "json"] : n \in PayloadSizes}

PreviewProvider == [Steady(Narrow(HeizOel24)) EXCEPT !.bodies = Payloads]

InitPreview ==
    /\ InitWith(<<PreviewProvider>>)
    /\ table = EmptyBag
    /\ now = Noon
    /\ zone = UTCZone
    /\ scrapeHour = DefaultScrapeHour
    /\ storeRawResponse = FALSE
    /\ th = [t \in Threads |-> IdleThread(IF t = "t1" THEN MaxScrapes ELSE 0)]

NextPreview ==
    \/ CallScrapeProvider("t1", "heizoel24")
    \/ ScrapeProviderLookup("t1")
    \/ ScrapeProviderCount("t1")
    \/ ScrapeProviderFetch("t1")
    \/ ScrapeProviderUpdate("t1")
    \/ ScrapeProviderExists("t1")
    \/ ScrapeProviderInsert("t1")

SpecPreview == InitPreview /\ [][NextPreview]_vars

(***************************************************************************)
(* Specification of the status endpoint next to the orchestrator: caller   *)
(* "t1" scrapes and backfills, providers are registered and registered     *)
(* again, and "t2" serves MaxReads status requests for one provider each.  *)
(***************************************************************************)
\* metrics := h.scraper.GetMetrics(provider.Name()); if metrics == nil { continue }
StatusGetMetrics(t, n) ==
    /\ th[t].pc = "idle" /\ th[t].reads > 0
    /\ LET r == th[t]
           m == GetMetrics(n)
       IN  th' = [th EXCEPT ![t] = [r EXCEPT !.op = "GetMetrics", !.name = n, !.reads = r.reads - 1,
                     !.metrics = m, !.snap = None,
                     !.pc = IF m = NilMetrics THEN "idle" ELSE "gm_snapshot"]]
    /\ UNCHANGED <<providers, providerMetrics, heap, storeRawResponse, table, now, zone, schedVars>>

\* A variant that copies the fields without the read lock and misses the
\* error a writer is storing.
StatusGetSnapshot_Unlocked(t) ==
    /\ th[t].pc = "gm_snapshot"
    /\ th' = [th EXCEPT ![t] = [th[t] EXCEPT !.pc = "idle",
                 !.snap = Some(Value([heap[th[t].metrics] EXCEPT !.LastError = None]))]]
    /\ UNCHANGED <<providers, providerMetrics, heap, storeRawResponse, table, now, zone, schedVars>>

\* snapshot := metrics.GetSnapshot()
StatusGetSnapshot(t) ==
    /\ th[t].pc = "gm_snapshot"
    /\ th' = [th EXCEPT ![t] = [th[t] EXCEPT !.pc = "idle", !.snap = Some(GetSnapshot(th[t].metrics))]]
    /\ UNCHANGED <<providers, providerMetrics, heap, storeRawResponse, table, now, zone, schedVars>>

\* The run command with --providers heizoel24, its provider in a steady state.
StatusProviderLists == {<<Steady(Narrow(HeizOel24))>>}

InitStatus ==
    /\ \E ps \in StatusProviderLists : InitWith(ps)
    /\ table = EmptyBag
    /\ now = Noon
    /\ zone = UTCZone
    /\ scrapeHour = DefaultScrapeHour
    /\ storeRawResponse = FALSE
    /\ th = [t \in Threads |->
               IF t = "t1" THEN IdleThread(MaxScrapes)
               ELSE IF t = "t2" THEN [IdleThread(0) EXCEPT !.reads = MaxReads]
               ELSE IdleThread(0)]

NextStatus ==
    \/ Next
    \/ \E n \in CallNames : StatusGetMetrics("t2", n)
    \/ StatusGetSnapshot("t2")

SpecStatus == InitStatus /\ [][NextStatus]_vars

(***************************************************************************)
(* Specification of a registry that changes while caller "t1" scrapes and  *)
(* backfills: providers are registered, and registered again, until        *)
(* MaxRegs Metrics objects have been allocated.                            *)
(***************************************************************************)
\* The providers the commands can construct: hoyer for two zip codes.
RegProviders ==
    {Steady(Narrow(HeizOel24)), Steady(Narrow(Hoyer("12345"))), Steady(Narrow(Hoyer("54321")))}

InitRegistry ==
    /\ InitWith(<<Steady(Narrow(Hoyer("12345")))>>)
    /\ table = EmptyBag
    /\ now = Noon
    /\ zone = UTCZone
    /\ scrapeHour = DefaultScrapeHour
    /\ storeRawResponse = FALSE
    /\ th = [t \in Threads |-> IdleThread(IF t = "t1" THEN MaxScrapes ELSE 0)]

NextRegistry ==
    \/ Next
    \/ \E p \in RegProviders : RegisterProvider(p)

SpecRegistry == InitRegistry /\ [][NextRegistry]_vars

(***************************************************************************)
\* Today's national observation as a later fetch returns it, after upstream
\* has corrected its price: another price, another body, a later fetch time.
CorrectedBody == [len |-> 421, body |-> "json'"]
Refetched ==
    PriceResult(HeizOel24, "standard", [abs |-> Day24h, loc |-> "UTC"],
                CHOOSE v \in Prices : v # (CHOOSE w \in Prices : TRUE), CorrectedBody,
                [abs |-> Noon + 1, loc |-> "Local"])

\* The observations the adapters produced at noon of day 1, and the refetched one.
StoreObs ==
    ObsOf(HeizOel24, JsonBody, [abs |-> Noon, loc |-> "Local"])
    \cup ObsOf(Steady(Narrow(Hoyer("12345"))), JsonBody, [abs |-> Noon, loc |-> "Local"])
    \cup ObsOf(Steady(Narrow(Hoyer("54321"))), JsonBody, [abs |-> Noon, loc |-> "Local"])
    \cup {Refetched}

\* Noon of day 1, and the start of the last hour of day 1 (UTC), which is in
\* the first hours of day 2 in the zones east of Greenwich.
StoreTimes == {Noon, ChangeDay * Day24h - TicksPerHour}

\* The zones, as far as they differ before the day of the change.
StoreZones == {UTCZone, FixedZone, FallBackZone}

\* --providers heizoel24 and --providers heizoel24,hoyer.
StoreProviderLists == {<<HeizOel24>>, <<HeizOel24, Hoyer("12345")>>}

\* s.db.InsertPrice(ctx, price, storeRawResponse) returns: with the row
\* upserted, or with an error and the table as it was.  The call takes time.
CallInsertPrice(t, price) ==
    /\ th[t].pc = "idle" /\ th[t].calls > 0
    /\ \E res \in {"ok", StorageError} :
          LET r == th[t]
              found == ExistsForDate(table, price.Provider, price.ProductType, price.Date, price.ZipCode)
              after == IF res = "ok" THEN InsertPrice(table, price, storeRawResponse, now) ELSE table
          IN  /\ table' = after
              /\ th' = [th EXCEPT ![t] =
                          [r EXCEPT !.op = "InsertPrice", !.calls = r.calls - 1,
                                    !.prices = Append(r.prices, price), !.hst = <<>>,
                                    !.log = Append(r.log, [k |-> "insert", i |-> Len(r.prices) + 1,
                                                           res |-> res, found |-> found,
                                                           after |-> after])]]
    /\ now' = now + 1
    /\ UNCHANGED <<providers, providerMetrics, heap, storeRawResponse, zone, schedVars>>

\* s.HasScrapedToday(ctx, name) returns.
CallHasScrapedToday(t, n) ==
    /\ th[t].pc = "idle"
    /\ \E res \in HasScrapedToday(t, n) :
          th' = [th EXCEPT ![t] = [th[t] EXCEPT !.op = "HasScrapedToday",
                                                !.hst = <<[n |-> n, res |-> res]>>]]
    /\ UNCHANGED <<providers, providerMetrics, heap, storeRawResponse, table, now, zone, schedVars>>

InitStore ==
    /\ \E ps \in StoreProviderLists : InitWith(ps)
    /\ table = EmptyBag
    /\ now \in StoreTimes
    /\ zone \in StoreZones
    /\ scrapeHour = DefaultScrapeHour
    /\ storeRawResponse \in BOOLEAN
    /\ th = [t \in Threads |-> IdleThread(IF t = "t1" THEN MaxUpserts ELSE 0)]

NextStore ==
    \/ \E price \in StoreObs : CallInsertPrice("t1", price)
    \/ \E n \in CallNames : CallHasScrapedToday("t1", n)

SpecStore == InitStore /\ [][NextStore]_vars

(***************************************************************************)
(* Properties of the orchestrator, checked under Spec.                     *)
(***************************************************************************)
\* The thread is inside, or has returned from, a ScrapeProvider invocation
\* (made directly or by ScrapeAll) that found its provider.
InScrape(r) == r.op \in {"ScrapeProvider", "ScrapeAll"} /\ r.metrics # 0

\* That invocation has made its metrics update.
Updated(r) == InScrape(r) /\ r.pc \notin {"sp_count", "sp_fetch", "sp_update"}

\* The entries of the storage log of r about observation i of the batch.
Issued(r, kind, i) == {j \in 1..Len(r.log) : r.log[j].k = kind /\ r.log[j].i = i}

\* The rows stored under the logical key of an observation.
KeyRows(price) ==
    {row \in Rows(table) :
        /\ row.provider = price.Provider
        /\ row.product_type = price.ProductType
        /\ row.price_date = FormatDate(price.Date)
        /\ row.zip_code = ZipToSQL(price.ZipCode)}

\* C2: when storage holds a record for an observation's key at the time
\* ScrapeProvider checks it, no upsert (insert or update) is issued for that
\* observation, and the provider's metrics show the fetch as successful:
\* LastScrapeSuccess is true and LastError is cleared.
C2_DedupBeforeStore ==
    \A t \in Callers :
        LET r == th[t]
        IN  InScrape(r) =>
              \A j \in 1..Len(r.log) :
                 (r.log[j].k = "exists" /\ r.log[j].found) =>
                    /\ Issued(r, "insert", r.log[j].i) = {}
                    /\ heap[r.metrics].LastScrapeSuccess
                    /\ heap[r.metrics].LastError = None

C2_Witness ==
    \E t \in Callers :
        LET r == th[t]
        IN  /\ r.op = "ScrapeProvider" /\ r.pc = "idle" /\ r.metrics # 0
            /\ \E j \in 1..Len(r.log) :
                  r.log[j].k = "exists" /\ r.log[j].found /\ r.log[j].res = "true"

\* C3: ScrapeAll returns nil whatever its providers did; it scrapes every
\* registered provider once; a provider whose fetch failed has TotalErrors one
\* higher than before the pass, and a provider whose fetch returned
\* observations has as LastPrice the price of the first of them.
C3_ScrapeAllIsolation ==
    \A t \in Callers :
        LET r == th[t]
        IN  (r.op = "ScrapeAll" /\ r.pc = "idle") =>
              /\ r.ret = Nil
              /\ Len(r.seen) = Cardinality(Registered)
              /\ {r.seen[j].n : j \in 1..Len(r.seen)} = Registered
              /\ \A j \in 1..Len(r.seen) :
                    LET e == r.seen[j]
                        m == providerMetrics[e.n]
                    IN  /\ e.err # Nil => heap[m].TotalErrors = r.pre[m].TotalErrors + 1
                        /\ (e.err = Nil /\ e.first # None) => heap[m].LastPrice = e.first

C3_Witness ==
    \E t \in Callers :
        LET r == th[t]
        IN  /\ r.op = "ScrapeAll" /\ r.pc = "idle" /\ Len(r.seen) = 2
            /\ r.seen[1].err # Nil
            /\ r.seen[2].err = Nil /\ r.seen[2].first # None

\* C4: when the fetch of a ScrapeProvider invocation fails, TotalErrors rises by
\* exactly one, LastScrapeSuccess is false, LastError is the error's text, the
\* error is what ScrapeProvider returns, and neither an existence check nor an
\* upsert is issued.
C4_FetchFailure ==
    \A t \in Callers :
        LET r == th[t]
            m == r.metrics
        IN  (Updated(r) /\ r.err # Nil) =>
              /\ heap[m].TotalErrors = r.pre[m].TotalErrors + 1
              /\ ~heap[m].LastScrapeSuccess
              /\ heap[m].LastError = Some(r.err)
              /\ r.log = <<>>
              /\ r.op = "ScrapeProvider" => (r.pc = "idle" /\ r.ret = r.err)

C4_Witness ==
    \E t \in Callers :
        LET r == th[t]
        IN  /\ r.op = "ScrapeProvider" /\ r.pc = "idle" /\ r.metrics # 0
            /\ r.err \in FetchErrors /\ r.ret = r.err
            /\ r.pre[r.metrics].TotalErrors = 1

\* C5: when the fetch of a ScrapeProvider invocation returns at least one
\* observation, then after the metrics update LastScrapeSuccess is true,
\* LastError is null, LastPrice is the price of the first observation of the
\* batch, and TotalErrors is what it was.
C5_FetchSuccess ==
    \A t \in Callers :
        LET r == th[t]
            m == r.metrics
        IN  (Updated(r) /\ r.err = Nil /\ Len(r.prices) > 0) =>
              /\ heap[m].LastScrapeSuccess
              /\ heap[m].LastError = None
              /\ heap[m].LastPrice = Some(r.prices[1].PricePer100L)
              /\ heap[m].TotalErrors = r.pre[m].TotalErrors

C5_Witness ==
    \E t \in Callers :
        LET r == th[t]
        IN  /\ Updated(r) /\ r.err = Nil /\ Len(r.prices) = 2
            /\ r.prices[1].PricePer100L # r.prices[2].PricePer100L
            /\ r.pre[r.metrics].TotalErrors = 1

\* C34: after the metrics update of a ScrapeProvider invocation whose fetch
\* succeeded, LastPrice is the price of the first observation of that fetch,
\* and when the fetch returned no observation the record shows neither a
\* price nor a payload preview of an earlier fetch.
C34_LastPriceOfLastFetch ==
    \A t \in Callers :
        LET r == th[t]
            m == r.metrics
        IN  (Updated(r) /\ r.err = Nil) =>
              IF Len(r.prices) > 0
              THEN heap[m].LastPrice = Some(r.prices[1].PricePer100L)
              ELSE heap[m].LastPrice = None /\ heap[m].LastRawResponse = EmptyPayload

\* The scenario of C6: a first ScrapeProvider call has returned; its fetch gave
\* one national observation whose key the store did not hold.
C6_Scenario(r) ==
    /\ r.op = "ScrapeProvider" /\ r.pc = "idle" /\ r.metrics # 0
    /\ r.err = Nil /\ Len(r.prices) = 1
    /\ r.prices[1].Scope = PriceScopeNational
    /\ r.pre[r.metrics].TotalRequests = 0
    /\ r.log # <<>> /\ ~r.log[1].found

C6_Outcome(r) ==
    /\ Cardinality(KeyRows(r.prices[1])) = 1
    /\ \A row \in KeyRows(r.prices[1]) :
          CopiesIn(row, table) = 1 /\ row.price_per_100l = r.prices[1].PricePer100L
    /\ heap[r.metrics].LastScrapeSuccess
    /\ heap[r.metrics].TotalRequests = 1

C7_StorageErrorContained ==
    \A t \in Callers :
        LET r == th[t]
        IN  (r.op \in {"ScrapeProvider", "Backfill"} /\ r.pc = "idle" /\ r.err = Nil) =>
              /\ r.ret \in {"none", Nil}
              /\ \A i \in 1..Len(r.prices) :
                    /\ Issued(r, "exists", i) # {}
                    /\ (\E j \in Issued(r, "exists", i) : r.log[j].res = "false")
                           => Issued(r, "insert", i) # {}

C7_Witness ==
    \E t \in Callers :
        LET r == th[t]
        IN  /\ r.op = "ScrapeProvider" /\ r.pc = "idle" /\ r.ret = Nil /\ Len(r.prices) = 2
            /\ \E j \in Issued(r, "insert", 1) : r.log[j].res = StorageError
            /\ \E j \in Issued(r, "insert", 2) : r.log[j].res = "ok"

\* The name is one Backfill has nothing to do for: it is not registered, or
\* its provider does not support backfill.
NoBackfill(n) == n \notin Registered \/ ~providers[n].backfill

\* C13: the step Backfill takes on a name that is not registered, or whose
\* provider does not support backfill, ends the call: it returns nil, no fetch
\* and no storage call has been issued, and the store, the registry and all
\* metrics are as they were.
C13_BackfillNoOp ==
    [][\A t \in Callers :
          (th[t].pc = "bf_lookup" /\ th'[t] # th[t] /\ NoBackfill(th[t].name)) =>
             /\ th'[t].pc = "idle" /\ th'[t].ret = Nil
             /\ th'[t].seen = <<>> /\ th'[t].log = <<>>
             /\ table' = table
             /\ heap' = heap /\ providerMetrics' = providerMetrics /\ providers' = providers]_vars

\* Backfill has returned for the registered provider without backfill support,
\* on a store that holds records, after a scrape.
C13_Witness ==
    \E t \in Callers :
        LET r == th[t]
        IN  /\ r.op = "Backfill" /\ r.pc = "idle" /\ r.name = "hoyer"
            /\ r.name \in Registered /\ r.ret = Nil
            /\ table # EmptyBag
            /\ \E m \in DOMAIN heap : heap[m].TotalRequests > 0

\* C28: the step in which ScrapeProvider looks up a name that is not
\* registered ends the call with no error; no fetch and no storage call is
\* made, and the store, the registry and every Metrics object stay as they are.
C28_UnknownProvider ==
    [][\A t \in Callers :
          (th[t].pc = "sp_lookup" /\ th[t].op = "ScrapeProvider" /\ th'[t] # th[t]
             /\ th[t].name \notin Registered) =>
             /\ th'[t].pc = "idle" /\ th'[t].ret = Nil
             /\ th'[t].seen = th[t].seen /\ th'[t].log = <<>>
             /\ table' = table
             /\ heap' = heap /\ providerMetrics' = providerMetrics /\ providers' = providers]_vars

\* After a scrape that stored a record, ScrapeProvider was called with a name
\* that is not registered and has returned.
C28_Witness ==
    \E t \in Callers :
        LET r == th[t]
        IN  /\ r.op = "ScrapeProvider" /\ r.pc = "idle" /\ r.name = "unknown"
            /\ r.name \notin Registered /\ r.ret = Nil /\ r.seen = <<>>
            /\ table # EmptyBag
            /\ \E m \in DOMAIN heap : heap[m].TotalRequests > 0

\* The observations of the batch of r for which a storage call failed.
StorageFailed(r) ==
    {i \in 1..Len(r.prices) : \E j \in 1..Len(r.log) : r.log[j].i = i /\ r.log[j].res = StorageError}

\* C14: a Backfill call that found a provider with backfill support has made
\* exactly one FetchHistoricalPrices call; when that failed, the error is
\* returned and no storage call is made; otherwise, when the call returns,
\* every observation fetched was checked once, an upsert was issued for exactly
\* those the check reported absent (and they were absent), and the numbers
\* inserted, skipped and failed on storage add up to the number fetched.
C14_BackfillOnce ==
    \A t \in Callers :
        LET r == th[t]
        IN  (r.op = "Backfill" /\ r.provider # NoProvider /\ r.pc # "bf_fetch") =>
              /\ Len(r.seen) = 1
              /\ r.err # Nil => (r.log = <<>> /\ r.pc = "idle" /\ r.ret = r.err)
              /\ (r.err = Nil /\ r.pc = "idle") =>
                    /\ r.ret = Nil
                    /\ \A i \in 1..Len(r.prices) :
                          /\ Cardinality(Issued(r, "exists", i)) = 1
                          /\ Cardinality(Issued(r, "insert", i)) <= 1
                          /\ \A j \in Issued(r, "exists", i) :
                                /\ (r.log[j].res = "false") <=> (Issued(r, "insert", i) # {})
                                /\ (r.log[j].res = "false") => ~r.log[j].found
                    /\ r.inserted + r.skipped + Cardinality(StorageFailed(r)) = Len(r.prices)

\* A backfill over a range of two days has returned: its batch held the same
\* observation twice, the first was inserted and the second skipped.
C14_Witness ==
    \E t \in Callers :
        LET r == th[t]
        IN  /\ r.op = "Backfill" /\ r.pc = "idle" /\ r.err = Nil
            /\ FormatDate(r.from) < FormatDate(r.to)
            /\ Len(r.prices) = 2 /\ r.inserted = 1 /\ r.skipped = 1

\* C23: a provider error in any orchestrator operation shows in that
\* provider's metrics: when the fetch of a ScrapeProvider or of a Backfill call
\* has failed and the call has returned the error, totalErrors has grown by one
\* over its value when the call began and lastError carries the error.
C23_ProviderErrorInMetrics ==
    \A t \in Callers :
        LET r == th[t]
        IN  (r.pc = "idle" /\ r.op \in {"ScrapeProvider", "Backfill"} /\ r.err # Nil
               /\ r.name \in Registered) =>
              LET m == providerMetrics[r.name]
              IN  /\ heap[m].TotalErrors = r.pre[m].TotalErrors + 1
                  /\ heap[m].LastError = Some(r.err)

(***************************************************************************)
(* Properties of the orchestrator over the HTTP exchange, checked under    *)
(* SpecFetch.                                                              *)
(***************************************************************************)
\* C24: no provider error and no storage error makes a scrape or a backfill
\* panic: no call ever ends in a panic.
C24_NoPanic == \A t \in Callers : th[t].pc # "panic"

(***************************************************************************)
(* Properties of the commands, checked under SpecCmd.                      *)
(***************************************************************************)
\* C26: every observation an adapter has returned and every row stored has
\* a zip code exactly when its scope is local, and none exactly when its
\* scope is national.
C26_ZipIffLocal ==
    /\ \A t \in Callers : \A i \in 1..Len(th[t].prices) :
          LET o == th[t].prices[i]
          IN  /\ o.Scope \in {PriceScopeLocal, PriceScopeNational}
              /\ (o.ZipCode # "") <=> (o.Scope = PriceScopeLocal)
    /\ \A row \in Rows(table) :
          /\ row.scope \in {PriceScopeLocal, PriceScopeNational}
          /\ (row.zip_code # NULL) <=> (row.scope = PriceScopeLocal)

\* One pass over both providers has stored a local row with its zip code and
\* a national row without.
C26_Witness ==
    /\ th["t1"].op = "ScrapeAll" /\ th["t1"].pc = "idle"
    /\ \E a, b \in Rows(table) :
          /\ a.scope = PriceScopeLocal /\ a.zip_code = Some("12345")
          /\ b.scope = PriceScopeNational /\ b.zip_code = NULL

(***************************************************************************)
(* Properties of the metrics preview, checked under SpecPreview.           *)
(***************************************************************************)
\* C27 as stated: the preview kept in the metrics is never longer than
\* 10 000 bytes, and after the update of a scrape whose payload is at most
\* 10 000 bytes long it is that payload.
C27_AsStated ==
    /\ \A m \in 1..Len(heap) : heap[m].LastRawResponse.len <= PreviewLimit
    /\ \A t \in Callers :
          LET r == th[t]
          IN  (Updated(r) /\ r.err = Nil /\ Len(r.prices) > 0
                 /\ r.prices[1].RawResponse.len <= PreviewLimit) =>
                heap[r.metrics].LastRawResponse = r.prices[1].RawResponse

\* C27 amended: the preview is never longer than 10 003 bytes; after the
\* update of a scrape it is the payload itself when that is at most 10 000
\* bytes long, and otherwise the first 10 000 bytes of it followed by "...".
C27_PreviewBounded ==
    /\ \A m \in 1..Len(heap) : heap[m].LastRawResponse.len <= PreviewLimit + 3
    /\ \A t \in Callers :
          LET r == th[t]
          IN  (Updated(r) /\ r.err = Nil /\ Len(r.prices) > 0) =>
                LET raw == r.prices[1].RawResponse
                    preview == heap[r.metrics].LastRawResponse
                IN  IF raw.len <= PreviewLimit
                    THEN preview = raw
                    ELSE /\ preview.len = PreviewLimit + 3
                         /\ preview.body = raw.body \o "[:10000]..."

\* A scrape with a body of 10 001 bytes follows one with a body of 10 000
\* bytes: the preview is the cut body and its three dots.
C27_Witness ==
    LET r == th["t1"]
    IN  /\ Updated(r) /\ r.err = Nil /\ Len(r.prices) > 0
        /\ r.prices[1].RawResponse.len = PreviewLimit + 1
        /\ heap[r.metrics].LastRawResponse.len = PreviewLimit + 3
        /\ heap[r.metrics].TotalRequests = 2
        /\ r.pre[r.metrics].LastRawResponse.len = PreviewLimit

(***************************************************************************)
(* Properties of the store under racing callers, checked under SpecRace.   *)
(***************************************************************************)
\* Two rows have the same logical key (providerName, productType, date,
\* zipCode), the absent zip code being one value.
SameKey(r1, r2) ==
    /\ r1.provider = r2.provider
    /\ r1.product_type = r2.product_type
    /\ r1.price_date = r2.price_date
    /\ r1.zip_code = r2.zip_code

\* C1: whatever ScrapeProvider, ScrapeAll and Backfill calls have run, and
\* however two of them interleaved, the table holds at most one row per
\* logical key.
C1_OneRecordPerKey ==
    \A r1 \in Rows(table) :
        /\ CopiesIn(r1, table) = 1
        /\ \A r2 \in Rows(table) : SameKey(r1, r2) => r1 = r2

\* Both callers were told that the key is absent and both upserts went through:
\* the second one met the row of the first.
C1_Witness ==
    \E t \in Callers, u \in Callers :
        /\ t # u
        /\ \E j \in 1..Len(th[t].log) :
              th[t].log[j].k = "insert" /\ th[t].log[j].res = "ok" /\ th[t].log[j].found
        /\ \E j \in 1..Len(th[u].log) :
              th[u].log[j].k = "insert" /\ th[u].log[j].res = "ok" /\ ~th[u].log[j].found
        /\ table # EmptyBag

\* Row new is row old with another price, payload or fetch time.
Rewritten(old, new) ==
    /\ SameKey(old, new)
    /\ \/ old.price_per_100l # new.price_per_100l
       \/ old.raw_response # new.raw_response
       \/ old.fetched_at # new.fetched_at

\* Caller t takes the upsert step for an observation with the key of row old,
\* after its own existence check for that observation found no record.
UpsertsAfterAbsent(t, old) ==
    LET r == th[t]
    IN  /\ r.pc \in {"sp_insert", "bf_insert"} /\ th'[t] # r
        /\ r.log # <<>>
        /\ r.log[Len(r.log)] = [k |-> "exists", i |-> r.i, res |-> "false", found |-> FALSE]
        /\ SameKey(old, NewRow(r.prices[r.i], storeRawResponse, now))

\* C37 as stated: no step of any call changes the price, payload or fetch
\* time of a stored record, however two calls interleave.
C37_AsStated ==
    [][\A old \in Rows(table), new \in Rows(table') : ~Rewritten(old, new)]_vars

\* C37: a stored record is rewritten only by the upsert of a call that had
\* checked the key before the record was stored and found it absent; a call
\* whose existence check meets the record leaves it as it is.
C37_RewrittenOnlyByRace ==
    [][\A old \in Rows(table), new \in Rows(table') :
          Rewritten(old, new) => \E t \in Callers : UpsertsAfterAbsent(t, old)]_vars

\* Both callers were told that the key is absent; the upsert that came
\* second replaced the price the first had stored.
C37_Witness ==
    \E t \in Callers, u \in Callers :
        /\ t # u
        /\ \E j \in 1..Len(th[t].log), k \in 1..Len(th[u].log) :
              LET a == th[t].log[j]
                  b == th[u].log[k]
              IN  /\ a.k = "insert" /\ a.res = "ok" /\ a.found
                  /\ b.k = "insert" /\ b.res = "ok" /\ ~b.found
                  /\ th[t].prices[a.i].PricePer100L # th[u].prices[b.i].PricePer100L
                  /\ SameKey(NewRow(th[t].prices[a.i], FALSE, now), NewRow(th[u].prices[b.i], FALSE, now))
                  /\ \E row \in Rows(table) :
                        /\ SameKey(row, NewRow(th[t].prices[a.i], FALSE, now))
                        /\ row.price_per_100l = th[t].prices[a.i].PricePer100L

\* The callers that take the step from position pc with the Metrics object m.
Leaving(pc, m) ==
    {t \in Callers : th[t].pc = pc /\ th'[t].pc # pc /\ th[t].metrics = m}

\* C17: no metrics update is lost, however concurrent ScrapeProvider calls for
\* one provider interleave: every step changes totalRequests by one for each
\* call that counts its request in it and totalErrors by one for each call
\* that records a failed fetch in it, and by nothing else.
C17_NoLostUpdate ==
    [][\A m \in 1..Len(heap) :
          /\ heap'[m].TotalRequests =
                heap[m].TotalRequests + Cardinality(Leaving("sp_count", m))
          /\ heap'[m].TotalErrors =
                heap[m].TotalErrors
                  + Cardinality({t \in Leaving("sp_update", m) : th[t].err # Nil})]_vars

\* Two calls for one provider overlap: "t1" has failed and returned while
\* "t2", whose fetch succeeded first, is still storing; both are counted.
C17_Witness ==
    /\ th["t1"].pc = "idle" /\ th["t1"].op = "ScrapeProvider" /\ th["t1"].ret \in FetchErrors
    /\ th["t2"].pc = "sp_exists" /\ th["t2"].metrics = th["t1"].metrics
    /\ LET live == heap[th["t2"].metrics]
       IN  live.TotalRequests = 2 /\ live.TotalErrors = 1 /\ ~live.LastScrapeSuccess

\* The calls that have counted their request in record m and not yet stored
\* their outcome.
InFlight(m) == {t \in Callers : th[t].pc \in {"sp_fetch", "sp_update"} /\ th[t].metrics = m}

\* C36: in every metrics record TotalErrors is at most TotalRequests, also
\* while calls for the provider are in flight and overlap: the errors counted
\* and the calls still to report together never exceed the requests counted.
C36_ErrorsWithinRequests ==
    \A m \in 1..Len(heap) :
       /\ heap[m].TotalErrors <= heap[m].TotalRequests
       /\ heap[m].TotalErrors + Cardinality(InFlight(m)) <= heap[m].TotalRequests

\* Two overlapping calls for one provider have both failed to fetch; the
\* first has stored its error, the second is about to.
C36_Witness ==
    /\ th["t1"].pc = "idle" /\ th["t1"].op = "ScrapeProvider" /\ th["t1"].ret \in FetchErrors
    /\ th["t2"].pc = "sp_update" /\ th["t2"].err \in FetchErrors
    /\ th["t2"].metrics = th["t1"].metrics
    /\ heap[th["t2"].metrics].TotalRequests = 2
    /\ heap[th["t2"].metrics].TotalErrors = 1

(***************************************************************************)
(* Properties of calculateNextScrapeTime, checked under SpecCalc.          *)
(***************************************************************************)
\* The reading of the local wall clock at instant x.
WallClock(x) == x + OffsetAt(x) * TicksPerHour

\* The instants at which the local wall clock reads hour:00 on the given day.
InstantsAt(day, hour) ==
    {x \in (0 - Day24h)..((MaxDays + 3) * Day24h) : WallClock(x) = day * Day24h + hour * TicksPerHour}

\* C8: calculateNextScrapeTime returns today at hour:00 when that instant is not
\* yet past, and the same hour tomorrow otherwise; its result is never earlier
\* than now and never more than 24 hours after it.  (Stated for the days on
\* which the local wall clock reads hour:00 exactly once, and counting the
\* instant now itself as not yet past.)
C8_NextScrapeTime ==
    LET today == WallClock(now) \div Day24h
        tdy == InstantsAt(today, scrapeHour)
        tmr == InstantsAt(today + 1, scrapeHour)
    IN  (th["sched"].pc = "st_wait" /\ Cardinality(tdy) = 1 /\ Cardinality(tmr) = 1) =>
           /\ (\E x \in tdy : x >= now) => nextScrapeAt \in tdy
           /\ (\A x \in tdy : x < now) => nextScrapeAt \in tmr
           /\ nextScrapeAt >= now
           /\ nextScrapeAt <= now + Day24h

(***************************************************************************)
(* Properties of the scheduler, checked under SpecSched.                   *)
(***************************************************************************)
\* The provider names of a sequence of ghost records.
Names(seq) == [j \in DOMAIN seq |-> seq[j].n]

AnsweredFalse(e) == e.res = "false"

\* C9: until the catch-up pass of Start is over, nextScrapeAt is not computed
\* and no timer is set; when it is over, HasScrapedToday has been asked once for
\* every registered provider, and ScrapeProvider has run once, in that order,
\* for exactly the providers for which the answer was false, whether or not
\* those scrapes failed; the scheduler then goes on to its wait.
C9_CatchUp ==
    LET r == th["sched"]
    IN  /\ (r.op = "runIfNeeded" /\ r.pc \notin {"st_wait", "rs_start", "stopped"}) =>
              (nextScrapeAt = ZeroTime /\ timer = None /\ lastScrapeAt = None)
        /\ (r.op = "runIfNeeded" /\ r.pc \in {"st_calc", "st_wait", "rs_start", "stopped"}) =>
              /\ Len(r.hst) = Cardinality(Registered)
              /\ {r.hst[j].n : j \in DOMAIN r.hst} = Registered
              /\ Names(r.seen) = Names(SelectSeq(r.hst, AnsweredFalse))

C9_Witness ==
    LET r == th["sched"]
    IN  /\ r.op = "runIfNeeded" /\ r.pc = "st_wait" /\ timer # None
        /\ Len(r.hst) = 2 /\ Len(r.seen) = 2
        /\ r.seen[1].err \in FetchErrors
        /\ r.seen[2].err = Nil

\* The scheduler is in its catch-up pass, the first instant not yet computed.
CatchingUp ==
    th["sched"].op = "runIfNeeded" /\ th["sched"].pc \notin {"st_wait", "rs_start", "stopped"}

\* The timer has fired and the scheduler has not yet recomputed the instant:
\* the scheduled ScrapeAll is about to run, runs, or has just returned.
FiredNotRescheduled ==
    th["sched"].fired # None /\ th["sched"].pc \notin {"st_wait", "stopped"}

\* C38 as stated: while the scheduler is running, nextScrapeAt is neither the
\* zero time nor the instant the timer has already fired for.
C38_AsStated ==
    running => (nextScrapeAt # ZeroTime /\ Some(nextScrapeAt) # th["sched"].fired)

\* C38: while the scheduler is running and at its wait, nextScrapeAt is set
\* and is the instant of the armed timer, which has not fired; during the
\* catch-up pass it is the zero time, and from the timer's fire until the
\* scheduled ScrapeAll has returned it is the instant that has fired, which
\* lies in the past.
C38_NextScrapeAtWhileRunning ==
    running =>
        /\ CatchingUp \/ th["sched"].pc = "st_wait" \/ FiredNotRescheduled
        /\ CatchingUp => nextScrapeAt = ZeroTime
        /\ th["sched"].pc = "st_wait" =>
              /\ nextScrapeAt # ZeroTime
              /\ timer = Some(nextScrapeAt)
              /\ Some(nextScrapeAt) # th["sched"].fired
        /\ FiredNotRescheduled =>
              /\ Some(nextScrapeAt) = th["sched"].fired
              /\ nextScrapeAt < now

\* The scheduler waits for the second instant: it has caught up, waited,
\* run one scheduled pass over a registered provider and published the
\* instant of the timer it now waits for.
C38_Witness ==
    /\ running /\ th["sched"].pc = "st_wait" /\ th["sched"].op = "runScrape"
    /\ th["sched"].fires = 1 /\ Len(th["sched"].seen) > 0
    /\ timer = Some(nextScrapeAt) /\ nextScrapeAt > now

\* C10: when the scheduler is back at its wait after a timer fire, lastScrapeAt
\* is set, one ScrapeAll pass has scraped every registered provider, and
\* nextScrapeAt is the instant 24 hours after the instant the timer fired for.
C10_DailyFire ==
    LET r == th["sched"]
    IN  (r.pc = "st_wait" /\ r.fired # None /\ ~cancelled) =>
           /\ lastScrapeAt # None
           /\ Len(r.seen) = Cardinality(Registered)
           /\ nextScrapeAt = r.fired[1] + Day24h

\* C33: a check that fails during the catch-up pass starts no scrape and
\* changes neither metrics nor store; the pass goes on to the providers that
\* are left, so that at its end every registered provider has been asked
\* about and none whose check failed has been scraped; and the scheduler is
\* then at its wait with nextScrapeAt computed and its timer set.
C33_CheckErrorSkipped ==
    /\ [][(th["sched"].pc = "rin_check" /\ th'["sched"].pc # "rin_check"
              /\ th'["sched"].hst[Len(th'["sched"].hst)].res = StorageError) =>
             /\ th'["sched"].pc = "rin_loop"
             /\ th'["sched"].queue = th["sched"].queue
             /\ th'["sched"].seen = th["sched"].seen
             /\ heap' = heap /\ table' = table]_vars
    /\ [](LET r == th["sched"]
          IN  /\ (r.op = "runIfNeeded" /\ r.pc \in {"st_calc", "st_wait"}) =>
                    /\ {r.hst[j].n : j \in DOMAIN r.hst} = Registered
                    /\ \A j \in DOMAIN r.hst, k \in DOMAIN r.seen :
                          r.hst[j].res = StorageError => r.seen[k].n # r.hst[j].n
              /\ (r.op = "runIfNeeded" /\ r.pc = "st_wait") =>
                    (timer # None /\ nextScrapeAt # ZeroTime))

\* The check of heizoel24 failed though the context was live; hoyer, next in
\* the pass, was scraped, and the scheduler waits for its first instant.
C33_Witness ==
    LET r == th["sched"]
    IN  /\ r.op = "runIfNeeded" /\ r.pc = "st_wait" /\ timer # None /\ ~cancelled
        /\ Len(r.hst) = 2
        /\ r.hst[1] = [n |-> "heizoel24", res |-> StorageError]
        /\ Names(r.seen) = <<"hoyer">>

\* C25: lastScrapeAt changes only in the step in which a scrape started by
\* the timer begins, which sets it to the current time; the catch-up pass and
\* every other step leave it alone, so it is null until the first timer fire.
C25_LastScrapeAt ==
    /\ [][lastScrapeAt' # lastScrapeAt =>
            /\ th["sched"].pc = "rs_start" /\ th["sched"].fired # None
            /\ lastScrapeAt' = Some(now)]_vars
    /\ [](th["sched"].fires = 0 => lastScrapeAt = None)

\* The catch-up pass has scraped a provider and the first scheduled scrape
\* has counted its request for it: lastScrapeAt is the instant of that fire.
C25_Witness ==
    /\ th["sched"].fires = 1 /\ lastScrapeAt # None
    /\ \E m \in 1..Len(heap) :
          /\ heap[m].TotalRequests = 2
          /\ heap[m].LastScrapeAt # None /\ heap[m].LastScrapeAt[1] < lastScrapeAt[1]

\* Scheduler.Start has returned: the deferred s.running = false has run.
Stopped == th["sched"].pc = "stopped" /\ ~running

\* C11: once the context is cancelled, the scheduler reaches Stopped, whether
\* the signal came before Start, during the catch-up pass, during the wait or
\* during a scheduled scrape; Start has then returned ctx.Err() and IsRunning
\* is false; and Stopped is never left again, so no scrape starts afterwards.
C11_StopsAfterCancel ==
    /\ cancelled ~> Stopped
    /\ [](Stopped => [](Stopped /\ th["sched"].ret = CtxCanceled))

\* The signal came while a scheduled scrape was fetching, and Start returned.
C11_Witness ==
    /\ Stopped
    /\ th["sched"].fires > 0
    /\ \E j \in 1..Len(th["sched"].seen) : th["sched"].seen[j].err = CtxCanceled

(***************************************************************************)
(* Properties of HasScrapedToday and of the upsert, checked under          *)
(* SpecStore.                                                              *)
(***************************************************************************)
\* The store holds a record of provider n for the product type "standard", the
\* given day and no zip code.
HoldsNational(n, day) ==
    \E row \in Rows(table) :
        /\ row.provider = n
        /\ row.product_type = "standard"
        /\ row.price_date = day
        /\ row.zip_code = NULL

C35_LocalToday ==
    LET r == th["t1"]
        e == r.hst[1]
        today == FormatDate(TimeNow)
    IN  (r.op = "HasScrapedToday") =>
           /\ FormatDate(Truncate24h(TimeNow)) = today
           /\ (e.n \in Registered /\ providers[e.n].scope = PriceScopeNational
                  /\ e.res # StorageError) =>
                 (e.res = "true" <=> HoldsNational(e.n, today))

\* The rows of tbl stored under the logical key of an observation.
RowsOfKey(tbl, price) ==
    {row \in Rows(tbl) :
        /\ row.provider = price.Provider
        /\ row.product_type = price.ProductType
        /\ row.price_date = FormatDate(price.Date)
        /\ row.zip_code = ZipToSQL(price.ZipCode)}

\* C20: the upsert is idempotent and the existence check sees its result: a
\* successful upsert leaves exactly one row under the observation's key;
\* repeating the upsert of the same observation leaves the table as the
\* first one left it; and from the first successful upsert of a key onwards
\* the existence check for that key answers true.
C20_UpsertIdempotent ==
    LET r == th["t1"]
        Ok(j) == r.log[j].res = "ok"
    IN  \A j \in 1..Len(r.log) :
            Ok(j) =>
               /\ Cardinality(RowsOfKey(r.log[j].after, r.prices[j])) = 1
               /\ CopiesIn(CHOOSE row \in RowsOfKey(r.log[j].after, r.prices[j]) : TRUE, r.log[j].after) = 1
               /\ ExistsForDate(table, r.prices[j].Provider, r.prices[j].ProductType,
                                r.prices[j].Date, r.prices[j].ZipCode)
               /\ \A k \in (j + 1)..Len(r.log) :
                     /\ RowsOfKey(table, r.prices[k]) = RowsOfKey(table, r.prices[j]) => r.log[k].found
                     /\ (Ok(k) /\ \A l \in j..k : Ok(l) => r.prices[l] = r.prices[j]) =>
                           r.log[k].after = r.log[j].after

\* One observation was upserted twice, at different times and with its
\* payload stored; the second upsert found the row of the first.
C20_Witness ==
    LET r == th["t1"]
    IN  /\ Len(r.log) = 2 /\ r.log[1].res = "ok" /\ r.log[2].res = "ok"
        /\ r.prices[1] = r.prices[2]
        /\ r.log[2].found /\ storeRawResponse
        /\ \E row \in Rows(table) : row.created_at < now - 1 /\ row.raw_response # NULL

\* The logical key of an observation, the absent zip code being one value.
KeyOf(price) == <<price.Provider, price.ProductType, FormatDate(price.Date), price.ZipCode>>

\* The keys of the observations "t1" has upserted with success.
UpsertedKeys ==
    {KeyOf(th["t1"].prices[j]) : j \in {l \in 1..Len(th["t1"].log) : th["t1"].log[l].res = "ok"}}

\* C21: in key equality the absent zip code is one value and every zip code
\* is a value of its own: the table holds exactly one row for each key that
\* was upserted, so two observations without zip code that agree on provider,
\* product type and date share a row while those of zip 12345 and zip 54321
\* have a row each; and the existence check for a key, with or without zip
\* code, answers true exactly when the row of that very key is stored.
C21_ZipKeyEquality ==
    /\ RowCount(table) = Cardinality(UpsertedKeys)
    /\ \A o \in StoreObs :
          /\ Cardinality(RowsOfKey(table, o)) = IF KeyOf(o) \in UpsertedKeys THEN 1 ELSE 0
          /\ \A zip \in {"", "12345", "54321"} :
                ExistsForDate(table, o.Provider, o.ProductType, o.Date, zip)
                   <=> <<o.Provider, o.ProductType, FormatDate(o.Date), zip>> \in UpsertedKeys

\* Two observations without zip code, of the same provider, product type and
\* date but of different prices, were upserted: one row is stored.
C21_Witness ==
    LET r == th["t1"]
    IN  /\ Len(r.log) = 2 /\ r.log[1].res = "ok" /\ r.log[2].res = "ok"
        /\ r.prices[1].ZipCode = "" /\ KeyOf(r.prices[1]) = KeyOf(r.prices[2])
        /\ r.prices[1].PricePer100L # r.prices[2].PricePer100L
        /\ RowCount(table) = 1

\* The table as the j-th upsert of "t1" found it.
TableBefore(j) == IF j = 1 THEN EmptyBag ELSE th["t1"].log[j - 1].after

\* C22: a successful upsert on a key that has a row gives that row the
\* price, the payload and the fetch time of the new observation and leaves
\* its other columns (key, currency, scope, creation time) as they were; the
\* other rows and the number of rows do not change.
C22_UpsertOverwrites ==
    LET r == th["t1"]
    IN  \A j \in 1..Len(r.log) :
            (r.log[j].res = "ok" /\ r.log[j].found) =>
               LET o == r.prices[j]
                   before == TableBefore(j)
                   after == r.log[j].after
                   old == CHOOSE row \in RowsOfKey(before, o) : TRUE
               IN  /\ RowsOfKey(before, o) = {old}
                   /\ RowsOfKey(after, o) =
                         {[old EXCEPT !.price_per_100l = o.PricePer100L,
                                      !.raw_response = IF storeRawResponse THEN Some(o.RawResponse)
                                                       ELSE NULL,
                                      !.fetched_at = o.FetchedAt]}
                   /\ \A row \in Rows(before) \cup Rows(after) :
                         row \notin RowsOfKey(before, o) \cup RowsOfKey(after, o) =>
                            CopiesIn(row, after) = CopiesIn(row, before)
                   /\ RowCount(after) = RowCount(before)

\* The corrected observation was upserted on the row of the earlier fetch,
\* with payloads stored: the row shows the new price, body and fetch time
\* and the creation time of the first upsert.
C22_Witness ==
    LET r == th["t1"]
    IN  /\ Len(r.log) = 2 /\ r.log[1].res = "ok" /\ r.log[2].res = "ok" /\ r.log[2].found
        /\ r.prices[2] = Refetched /\ r.prices[1] # Refetched
        /\ storeRawResponse
        /\ \E row \in Rows(table) :
              /\ row.price_per_100l = Refetched.PricePer100L
              /\ row.raw_response = Some(CorrectedBody)
              /\ row.fetched_at = Refetched.FetchedAt
              /\ row.created_at < now - 1

(***************************************************************************)
(* Properties of a changing registry, checked under SpecRegistry.          *)
(***************************************************************************)
\* The two counters a caller of GetMetrics(n) finds in registry state (pm, h).
Counters(pm, h, n) == <<h[pm[n]].TotalRequests, h[pm[n]].TotalErrors>>

\* This step is a RegisterProvider call for the name n.
Registering(n) == \E p \in RegProviders : p.name = n /\ RegisterProvider(p)

\* C18: RegisterProvider for a name already registered makes its provider the
\* one found under that name, with a new Metrics object in its zero state, and
\* leaves the providers and Metrics objects of the other names as they are;
\* a scrape that looks the name up later works with what it finds there.
C18_Reregister ==
    [][/\ \A p \in RegProviders :
             (p.name \in Registered /\ RegisterProvider(p)) =>
                /\ DOMAIN providers' = Registered
                /\ providers'[p.name] = p
                /\ providerMetrics'[p.name] \notin DOMAIN heap
                /\ heap'[providerMetrics'[p.name]] = NewMetrics
                /\ \A n \in Registered \ {p.name} :
                      /\ providers'[n] = providers[n]
                      /\ providerMetrics'[n] = providerMetrics[n]
                /\ \A m \in DOMAIN heap : heap'[m] = heap[m]
       /\ \A t \in Callers :
             (th[t].pc = "sp_lookup" /\ th'[t].pc = "sp_count") =>
                /\ th'[t].provider = providers[th[t].name]
                /\ th'[t].metrics = providerMetrics[th[t].name]]_vars

\* hoyer was scraped, registered again for another zip code next to
\* heizoel24, and scraped again: the record stored last carries the new zip
\* code and the new Metrics object counts one request, as the old one does.
C18_Witness ==
    /\ Registered = {"heizoel24", "hoyer"}
    /\ providers["hoyer"].zipCode = "54321"
    /\ providerMetrics["hoyer"] # 1
    /\ heap[1].TotalRequests = 1
    /\ heap[providerMetrics["hoyer"]].TotalRequests = 1
    /\ \E row \in Rows(table) : row.zip_code = Some("54321")

\* Caller t is inside ScrapeProvider, past the lookup, and the name it scrapes
\* has been registered again since: its Metrics object is the replaced one.
HoldsReplaced(t) ==
    /\ th[t].pc \in {"sp_count", "sp_fetch", "sp_update", "sp_exists", "sp_insert"}
    /\ th[t].metrics # providerMetrics[th[t].name]

\* C39: a Metrics object is written only by the counting and the updating
\* step of a ScrapeProvider call that found it at its lookup, so a call in
\* flight when its name is registered again leaves the fresh object alone;
\* and every object that is not in its zero state (an error, a price, a
\* lastScrapeAt) counts at least one request.
C39_FreshMetricsUntouched ==
    /\ [](\A m \in DOMAIN heap : heap[m] # NewMetrics => heap[m].TotalRequests >= 1)
    /\ [][/\ \A m \in DOMAIN heap :
               heap'[m] # heap[m] =>
                  \E t \in Callers : /\ th[t].metrics = m
                                     /\ th[t].pc \in {"sp_count", "sp_update"}
                                     /\ th'[t] # th[t]
          /\ \A t \in Callers :
               (HoldsReplaced(t) /\ th'[t] # th[t]) =>
                  /\ heap'[providerMetrics[th[t].name]] = heap[providerMetrics[th[t].name]]
                  /\ (th'[t].pc # "idle" => th'[t].metrics = th[t].metrics)]_vars

\* hoyer was registered again while its scrape was in flight: the call has
\* written its outcome to the replaced object, which shows the request, the
\* time and the price, and the fresh object is in its zero state.
C39_Witness ==
    /\ HoldsReplaced("t1") /\ th["t1"].pc = "sp_exists"
    /\ th["t1"].name = "hoyer"
    /\ heap[th["t1"].metrics].TotalRequests = 1
    /\ heap[th["t1"].metrics].LastScrapeAt # None
    /\ heap[th["t1"].metrics].LastPrice # None
    /\ heap[providerMetrics["hoyer"]] = NewMetrics

\* C19 as stated: the counters found through GetMetrics(name) never decrease,
\* whatever calls are made.
C19_AsStated ==
    [][\A n \in Registered :
          /\ Counters(providerMetrics', heap', n)[1] >= Counters(providerMetrics, heap, n)[1]
          /\ Counters(providerMetrics', heap', n)[2] >= Counters(providerMetrics, heap, n)[2]]_vars

\* C19 amended: the counters found through GetMetrics(name) never decrease
\* over ScrapeProvider, ScrapeAll and Backfill calls and over RegisterProvider
\* calls for other names; a RegisterProvider call for the name sets both to
\* zero.
C19_MonotoneUnlessReregistered ==
    [][\A n \in Registered :
          IF Registering(n)
          THEN Counters(providerMetrics', heap', n) = <<0, 0>>
          ELSE /\ Counters(providerMetrics', heap', n)[1] >= Counters(providerMetrics, heap, n)[1]
               /\ Counters(providerMetrics', heap', n)[2] >= Counters(providerMetrics, heap, n)[2]]_vars

\* hoyer was registered again after a failed scrape and shows zero counters,
\* while heizoel24, registered before that, has kept a count of one.
C19_Witness ==
    /\ Registered = {"heizoel24", "hoyer"}
    /\ providerMetrics["hoyer"] > providerMetrics["heizoel24"]
    /\ heap[1].TotalErrors = 1
    /\ Counters(providerMetrics, heap, "hoyer") = <<0, 0>>
    /\ Counters(providerMetrics, heap, "heizoel24")[1] = 1

(***************************************************************************)
(* Properties of the status endpoint, checked under SpecStatus.            *)
(***************************************************************************)
\* C15: what a caller reads through the result of GetMetrics(name) is a copy:
\* it stays what it was, whatever scrapes do after GetMetrics has returned.
C15_GetMetricsIsCopy ==
    [][\A t \in Callers :
          (th[t].op = "GetMetrics" /\ th[t].metrics # NilMetrics /\ th'[t].metrics = th[t].metrics) =>
             Deref(heap', Pointer(th[t].metrics)) = Deref(heap, Pointer(th[t].metrics))]_vars

\* C16: a snapshot carries the fields of the live record as they are when it is
\* taken, and for as long as it is held every field keeps its value, whatever
\* scrapes update the live record in the meantime.
C16_SnapshotStable ==
    [][\A t \in Callers :
          /\ (th[t].pc = "gm_snapshot" /\ th'[t].pc = "idle") =>
                (th'[t].snap # None /\ Deref(heap, th'[t].snap[1]) = heap[th[t].metrics])
          /\ (th[t].snap # None /\ th'[t].snap = th[t].snap) =>
                Deref(heap', th[t].snap[1]) = Deref(heap, th[t].snap[1])]_vars

\* A snapshot taken between two scrapes is held while the second has
\* replaced the live record's counters, last price and last error.
C16_Witness ==
    \E t \in Callers :
        /\ th[t].snap # None
        /\ LET snapshot == Deref(heap, th[t].snap[1])
               live == heap[th[t].metrics]
           IN  /\ snapshot.TotalRequests = 1 /\ live.TotalRequests = 2
               /\ snapshot.LastPrice # None /\ snapshot.LastError = None
               /\ live.LastError # None /\ live.TotalErrors = 1

\* The outcome fields of a metrics record agree with each other.
Consistent(m) ==
    /\ m.LastScrapeSuccess => m.LastError = None
    /\ (m.LastScrapeAt # None /\ ~m.LastScrapeSuccess) => m.LastError # None

\* C31: every live metrics record, and every snapshot a reader holds, is
\* consistent: a successful last scrape shows no error, and a last scrape
\* that was made and did not succeed shows one.
C31_MetricsConsistent ==
    /\ \A m \in DOMAIN heap : Consistent(heap[m])
    /\ \A t \in Callers : th[t].snap # None => Consistent(Deref(heap, th[t].snap[1]))

\* After a failed scrape, and while the next scrape has counted its request
\* and not yet stored its outcome, a reader took a snapshot: it shows the
\* failure whole.
C31_Witness ==
    \E t \in Callers :
        /\ th[t].snap # None
        /\ th["t1"].pc \in {"sp_fetch", "sp_update"}
        /\ LET snapshot == Deref(heap, th[t].snap[1])
           IN  /\ snapshot.TotalRequests = 2 /\ snapshot.TotalErrors = 1
               /\ snapshot.LastScrapeAt # None /\ ~snapshot.LastScrapeSuccess
               /\ snapshot.LastError # None

(***************************************************************************)
(* Properties of the scheduler's wait point under cancellation, checked    *)
(* under SpecStop.                                                         *)
(***************************************************************************)
\* The scheduler is at its select with the context done.
CancelledAtWait == cancelled /\ th["sched"].pc = "st_wait"

\* The timer set at the last computation is due.
TimerDue == timer # None /\ now >= timer[1]

\* C29 as stated: once the context is cancelled no scheduled scrape starts,
\* and from its wait point the scheduler goes nowhere but to Stopped, the
\* timer being due or not.
C29_AsStated ==
    [][cancelled =>
          /\ ~(th["sched"].pc = "rs_start" /\ th'["sched"].pc # "rs_start")
          /\ (th["sched"].pc = "st_wait" /\ th'["sched"].pc # "st_wait") => Stopped']_vars

\* C29: once the context is cancelled, the scheduler leaves its wait point
\* for Stopped unless the timer is due as well, in which case the select may
\* take either case; a scheduled scrape starts under a cancelled context
\* only after the timer's case was taken; and once Stopped, the scheduler
\* starts nothing.
C29_StopsUnlessTimerDue ==
    /\ [][(CancelledAtWait /\ th'["sched"].pc # "st_wait") => (Stopped' \/ TimerDue)]_vars
    /\ [][(cancelled /\ lastScrapeAt' # lastScrapeAt) => th["sched"].fired # None]_vars
    /\ [][Stopped => (Stopped' /\ lastScrapeAt' = lastScrapeAt)]_vars

\* The signal came during the catch-up pass of a run started on the scrape
\* hour: at the select the timer was due and the context done, and Start
\* returned without a scheduled scrape.
C29_Witness ==
    /\ Stopped
    /\ cancelled
    /\ th["sched"].fires = 0
    /\ lastScrapeAt = None
    /\ nextScrapeAt <= now

(***************************************************************************)
(* Properties of one ScrapeAll pass over a registry that changes, checked  *)
(* under SpecRegistry.                                                     *)
(***************************************************************************)
\* The names of a pass in the order of their scrapes: those fetched, the one
\* whose ScrapeProvider has begun and not yet fetched, those still to come.
Plan(r) ==
    Names(r.seen)
       \o (IF r.pc \in {"sp_lookup", "sp_count", "sp_fetch"} THEN <<r.name>> ELSE <<>>)
       \o r.queue

\* Thread t has made the copy of the provider list and runs ScrapeAll's loop,
\* or has returned from it.
InPass(t) == th[t].op = "ScrapeAll" /\ th[t].pc # "sa_snapshot"

\* C30 as stated, in what it says of the count when a pass returns: every
\* provider the pass has scraped shows the request of this pass.
C30_AsStated ==
    [][\A t \in Callers :
          (InPass(t) /\ th[t].pc = "sa_loop" /\ th'[t].pc = "idle") =>
             \A j \in DOMAIN th[t].seen :
                heap[providerMetrics[th[t].seen[j].n]].TotalRequests >= 1]_vars

\* C30: the copy ScrapeAll makes holds each name registered at that moment
\* once; the pass scrapes these names in the copy's order, one ScrapeProvider
\* at a time, each begun from the loop after the one before has returned, and
\* no registration made during the pass adds a name to it or takes one away;
\* each of these scrapes adds exactly one to TotalRequests of the Metrics
\* object its lookup found under the name, and changes no other count.
C30_PassScrapesItsCopy ==
    /\ [][\A t \in Callers :
             (th[t].pc = "sa_snapshot" /\ th'[t].pc # "sa_snapshot") =>
                (Plan(th'[t]) \in Orders(Registered) /\ th'[t].pc = "sa_loop")]_vars
    /\ [][\A t \in Callers :
             (InPass(t) /\ InPass(t)') =>
                /\ Plan(th'[t]) = Plan(th[t])
                /\ (th'[t].pc = "sp_lookup" /\ th[t].pc # "sp_lookup") =>
                      (th[t].pc = "sa_loop" /\ th'[t].name = Head(th[t].queue))
                /\ (th[t].pc = "sp_count" /\ th'[t].pc # "sp_count") =>
                      heap' = [heap EXCEPT ![th[t].metrics].TotalRequests = @ + 1]
                /\ (th[t].pc # "sp_count" /\ th'[t] # th[t]) =>
                      \A m \in DOMAIN heap : heap'[m].TotalRequests = heap[m].TotalRequests]_vars

\* A pass over hoyer alone has fetched, and heizoel24, registered since the
\* pass made its copy, is not part of it.
C30_Witness ==
    /\ InPass("t1")
    /\ th["t1"].pc = "sp_update"
    /\ Plan(th["t1"]) = <<"hoyer">>
    /\ "heizoel24" \in Registered

(***************************************************************************)
(* The locks.  Scraper.mu guards the registry, Metrics.mu one provider's   *)
(* metrics record, Scheduler.mu the scheduler's fields; all three are      *)
(* sync.RWMutex.  Every operation is the sequence of its lock calls, its   *)
(* provider fetches and its storage queries, in the order of the code.     *)
(***************************************************************************)
ScraperMu == "Scraper.mu"
MetricsMu == "Metrics.mu"
SchedulerMu == "Scheduler.mu"

Lock(mu) == [k |-> "Lock", mu |-> mu]
Unlock(mu) == [k |-> "Unlock", mu |-> mu]
RLock(mu) == [k |-> "RLock", mu |-> mu]
RUnlock(mu) == [k |-> "RUnlock", mu |-> mu]
FetchCall == [k |-> "fetch", mu |-> ""]
QueryCall == [k |-> "query", mu |-> ""]

\* s.mu.Lock(); defer s.mu.Unlock(); the two map writes.
RegisterProviderSteps == <<Lock(ScraperMu), Unlock(ScraperMu)>>

\* s.mu.RLock(); defer s.mu.RUnlock(), in GetProviders and in GetMetrics.
GetProvidersSteps == <<RLock(ScraperMu), RUnlock(ScraperMu)>>
GetMetricsSteps == <<RLock(ScraperMu), RUnlock(ScraperMu)>>

\* m.mu.RLock(); defer m.mu.RUnlock().
GetSnapshotSteps == <<RLock(MetricsMu), RUnlock(MetricsMu)>>

\* The lookup under s.mu, the count under metrics.mu, the fetch, the update
\* under metrics.mu, then ExistsForDate and InsertPrice.
ScrapeProviderSteps ==
    <<RLock(ScraperMu), RUnlock(ScraperMu), Lock(MetricsMu), Unlock(MetricsMu), FetchCall,
      Lock(MetricsMu), Unlock(MetricsMu), QueryCall, QueryCall>>

\* The copy under s.mu, then ScrapeProvider for the provider.
ScrapeAllSteps == <<RLock(ScraperMu), RUnlock(ScraperMu)>> \o ScrapeProviderSteps

\* The lookup under s.mu, FetchHistoricalPrices, ExistsForDate and InsertPrice.
BackfillSteps == <<RLock(ScraperMu), RUnlock(ScraperMu), FetchCall, QueryCall, QueryCall>>

\* A variant whose first RLock is released by a defer as well.
HasScrapedTodaySteps_Nested ==
    <<RLock(ScraperMu), RLock(ScraperMu), QueryCall, RUnlock(ScraperMu), RUnlock(ScraperMu)>>

\* The lookup under s.mu; then s.mu.RLock() again with a deferred RUnlock, so
\* that ExistsForDate runs under the read lock.
HasScrapedTodaySteps ==
    <<RLock(ScraperMu), RUnlock(ScraperMu), RLock(ScraperMu), QueryCall, RUnlock(ScraperMu)>>

\* IsRunning, LastScrapeAt, NextScrapeAt: s.mu.RLock(); defer s.mu.RUnlock().
AccessorSteps == <<RLock(SchedulerMu), RUnlock(SchedulerMu)>>

\* StatusHandler.ServeHTTP: the three accessors, GetProviders, GetMetrics and
\* GetSnapshot for the provider, getDatabaseStatus.
ServeHTTPSteps ==
    AccessorSteps \o AccessorSteps \o AccessorSteps \o GetProvidersSteps \o GetMetricsSteps
       \o GetSnapshotSteps \o <<QueryCall>>

\* runIfNeeded: GetProviders, HasScrapedToday, and ScrapeProvider when needed.
runIfNeededSteps ==
    {GetProvidersSteps \o HasScrapedTodaySteps \o scrape : scrape \in {<<>>, ScrapeProviderSteps}}

\* runScrape: lastScrapeAt under s.mu, then ScrapeAll.
runScrapeSteps == <<Lock(SchedulerMu), Unlock(SchedulerMu)>> \o ScrapeAllSteps

\* Start: running under s.mu, runIfNeeded, nextScrapeAt under s.mu, at most
\* one timer case (runScrape, nextScrapeAt under s.mu), and at ctx.Done() the
\* deferred running = false under s.mu.
StartSteps ==
    LET field == <<Lock(SchedulerMu), Unlock(SchedulerMu)>>
    IN  {field \o catchUp \o field \o fire \o field :
            catchUp \in runIfNeededSteps, fire \in {<<>>, runScrapeSteps \o field}}

\* What the commands and the HTTP server call while the scheduler runs.
CallerSteps ==
    {[op |-> "RegisterProvider", steps |-> RegisterProviderSteps],
     [op |-> "ScrapeProvider", steps |-> ScrapeProviderSteps],
     [op |-> "ScrapeAll", steps |-> ScrapeAllSteps],
     [op |-> "Backfill", steps |-> BackfillSteps],
     [op |-> "HasScrapedToday", steps |-> HasScrapedTodaySteps]}
ServerSteps ==
    {[op |-> "RegisterProvider", steps |-> RegisterProviderSteps],
     [op |-> "ServeHTTP", steps |-> ServeHTTPSteps]}

\* A goroutine of the locking model: the steps it has left, the locks it
\* holds, and whether it has called Lock and waits for it.
LockThread(n) ==
    [pc |-> "idle", op |-> "", queue |-> <<>>, held |-> <<>>, waits |-> FALSE, calls |-> n]

Holds(t, mu, mode) == \E j \in DOMAIN th[t].held : th[t].held[j] = [mu |-> mu, mode |-> mode]

\* Lock returns when no goroutine holds the mutex.
CanLock(mu) == \A u \in Threads : ~Holds(u, mu, "w") /\ ~Holds(u, mu, "r")

\* RLock returns when no writer holds the mutex and none has called Lock.
CanRLock(mu) ==
    \A u \in Threads :
       /\ ~Holds(u, mu, "w")
       /\ ~(th[u].waits /\ Head(th[u].queue).mu = mu)

LockUnchanged ==
    UNCHANGED <<providers, providerMetrics, heap, storeRawResponse, table, now, zone, schedVars>>

LockCall(t, c) ==
    /\ th[t].pc = "idle" /\ th[t].calls > 0
    /\ th' = [th EXCEPT ![t] = [th[t] EXCEPT !.pc = "run", !.op = c.op, !.queue = c.steps,
                                            !.calls = th[t].calls - 1]]
    /\ LockUnchanged

LockStart ==
    /\ th["sched"].pc = "idle" /\ th["sched"].op = ""
    /\ \E steps \in StartSteps :
          th' = [th EXCEPT !["sched"] = [th["sched"] EXCEPT !.pc = "run", !.op = "Start",
                                                            !.queue = steps]]
    /\ LockUnchanged

\* mu.Lock() is called: from now on new readers wait.
LockRequest(t) ==
    /\ th[t].pc = "run" /\ th[t].queue # <<>>
    /\ Head(th[t].queue).k = "Lock" /\ ~th[t].waits
    /\ th' = [th EXCEPT ![t].waits = TRUE]
    /\ LockUnchanged

\* mu.Lock() returns.
LockAcquire(t) ==
    /\ th[t].pc = "run" /\ th[t].queue # <<>>
    /\ Head(th[t].queue).k = "Lock" /\ th[t].waits
    /\ CanLock(Head(th[t].queue).mu)
    /\ th' = [th EXCEPT ![t] = [th[t] EXCEPT !.waits = FALSE, !.queue = Tail(th[t].queue),
                 !.held = Append(th[t].held, [mu |-> Head(th[t].queue).mu, mode |-> "w"])]]
    /\ LockUnchanged

\* mu.RLock() returns.
RLockAcquire(t) ==
    /\ th[t].pc = "run" /\ th[t].queue # <<>>
    /\ Head(th[t].queue).k = "RLock"
    /\ CanRLock(Head(th[t].queue).mu)
    /\ th' = [th EXCEPT ![t] = [th[t] EXCEPT !.queue = Tail(th[t].queue),
                 !.held = Append(th[t].held, [mu |-> Head(th[t].queue).mu, mode |-> "r"])]]
    /\ LockUnchanged

\* mu.Unlock() or mu.RUnlock(): the lock taken last is given back.
LockRelease(t) ==
    /\ th[t].pc = "run" /\ th[t].queue # <<>>
    /\ Head(th[t].queue).k \in {"Unlock", "RUnlock"}
    /\ th[t].held # <<>>
    /\ th' = [th EXCEPT ![t] = [th[t] EXCEPT !.queue = Tail(th[t].queue),
                 !.held = SubSeq(th[t].held, 1, Len(th[t].held) - 1)]]
    /\ LockUnchanged

\* A provider fetch or a storage query returns.
LockProceed(t) ==
    /\ th[t].pc = "run" /\ th[t].queue # <<>>
    /\ Head(th[t].queue).k \in {"fetch", "query"}
    /\ th' = [th EXCEPT ![t].queue = Tail(th[t].queue)]
    /\ LockUnchanged

\* The operation returns.
LockReturn(t) ==
    /\ th[t].pc = "run" /\ th[t].queue = <<>>
    /\ th' = [th EXCEPT ![t].pc = "idle"]
    /\ LockUnchanged

(***************************************************************************)
(* Specification of the locking: the scheduler's goroutine, a command      *)
(* ("t1") and the HTTP server ("t2") over one registered provider.         *)
(***************************************************************************)
InitLocks ==
    /\ InitWith(<<SchedHeizOel24>>)
    /\ table = EmptyBag
    /\ now = Noon
    /\ zone = UTCZone
    /\ scrapeHour = DefaultScrapeHour
    /\ storeRawResponse = FALSE
    /\ th = [t \in Threads |->
               IF t = "t1" THEN LockThread(MaxScrapes)
               ELSE IF t = "t2" THEN LockThread(MaxReads)
               ELSE LockThread(0)]

NextLocks ==
    \/ LockStart
    \/ \E c \in CallerSteps : LockCall("t1", c)
    \/ \E c \in ServerSteps : LockCall("t2", c)
    \/ \E t \in Threads : LockRequest(t)
    \/ \E t \in Threads : LockAcquire(t)
    \/ \E t \in Threads : RLockAcquire(t)
    \/ \E t \in Threads : LockRelease(t)
    \/ \E t \in Threads : LockProceed(t)
    \/ \E t \in Threads : LockReturn(t)

SpecLocks == InitLocks /\ [][NextLocks]_vars

(***************************************************************************)
(* Properties of the locking, checked under SpecLocks.                     *)
(***************************************************************************)
\* Goroutine t is inside a lock call that cannot return in this state.
Blocked(t) ==
    /\ th[t].pc = "run" /\ th[t].queue # <<>>
    /\ \/ Head(th[t].queue).k = "Lock" /\ th[t].waits /\ ~CanLock(Head(th[t].queue).mu)
       \/ Head(th[t].queue).k = "RLock" /\ ~CanRLock(Head(th[t].queue).mu)

\* Every goroutine that is inside an operation is blocked.
Deadlocked ==
    /\ \E t \in Threads : Blocked(t)
    /\ \A t \in Threads : th[t].pc = "run" => Blocked(t)

\* C32: no interleaving of the operations deadlocks; a goroutine that asks
\* for Scraper.mu holds no Metrics.mu, one that asks for Metrics.mu holds no
\* Scraper.mu, and a goroutine inside a provider fetch holds no lock.
C32_NoDeadlock ==
    /\ ~Deadlocked
    /\ \A t \in Threads :
          (th[t].pc = "run" /\ th[t].queue # <<>>) =>
             LET step == Head(th[t].queue)
             IN  /\ (step.k \in {"Lock", "RLock"} /\ step.mu = ScraperMu) =>
                       (~Holds(t, MetricsMu, "w") /\ ~Holds(t, MetricsMu, "r"))
                 /\ (step.k \in {"Lock", "RLock"} /\ step.mu = MetricsMu) =>
                       (~Holds(t, ScraperMu, "w") /\ ~Holds(t, ScraperMu, "r"))
                 /\ step.k = "fetch" => th[t].held = <<>>

\* The scheduler's HasScrapedToday queries storage under the read lock,
\* the server's RegisterProvider has called Lock and waits, and a command's
\* RLock waits behind it: the query returns and all three go on.
C32_Witness ==
    /\ th["sched"].pc = "run" /\ th["sched"].queue # <<>>
    /\ Head(th["sched"].queue).k = "query" /\ Holds("sched", ScraperMu, "r")
    /\ th["t2"].waits /\ th["t2"].op = "RegisterProvider"
    /\ Blocked("t1") /\ Blocked("t2")

====
